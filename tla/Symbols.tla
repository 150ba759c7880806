-------------------------------- MODULE Symbols --------------------------------
(* The table of canonical strings (KernelForPrimordialSoup.ns:2787-2870, intern:   *)
(* and rehashSymbolTable): a weak array probed from the hash of a string on. The   *)
(* collector may clear any entry that nothing else refers to, at any moment, also  *)
(* between two probes and in the middle of a rehash.                             *)
EXTENDS Integers, FiniteSets, FiniteSetsExt

CONSTANTS
    Strings,            \* string objects that may be made
    Contents(_),        \* their bytes
    HashValue(_),       \* String hash, of the bytes
    SnapshotSymbols,    \* sets of strings that a snapshot's table may begin with
    nil, Unused         \* a cleared entry; an entry that is the table itself

ASSUME SymbolsAssumption ==
    /\ \A s \in Strings : HashValue(Contents(s)) \in Nat
    /\ \A S \in SnapshotSymbols :
         /\ S \subseteq Strings /\ IsFiniteSet(S) /\ S # {}
         /\ \A s, t \in S : Contents(s) = Contents(t) => s = t
    /\ nil \notin Nat /\ nil # Unused /\ {nil, Unused} \cap Strings = {}

VARIABLES
    symbolTable,        \* 1..capacity -> Strings \cup {nil, Unused}
    symbolTableUsed,    \* entries that are not Unused; nil before the first rehash
    canonical,          \* strings that are marked
    held,               \* strings that the program refers to
    made,               \* strings that exist or have existed
    interning           \* intern:, while it runs

symbolVars == <<symbolTable, symbolTableUsed, canonical, held, made, interning>>

Idle == [pc |-> "idle"]
Running == interning.pc # "idle"
Entries(t) == {t[i] : i \in DOMAIN t} \ {nil, Unused}
InTable == Entries(symbolTable) \cup (IF interning.pc = "move" THEN Entries(interning.newTable) ELSE {})
\* The locals of intern: and of rehashSymbolTable are references too.
Referenced == held \cup (IF Running THEN {interning.string} ELSE {})

Capacity(t) == Cardinality(DOMAIN t)
Index(s, t) == (HashValue(Contents(s)) % Capacity(t)) + 1
Following(i, t) == (i % Capacity(t)) + 1

\* A string other than the symbols: read, concatenated or computed.
Make(s) ==
    /\ ~Running /\ s \notin made
    /\ made' = made \cup {s} /\ held' = held \cup {s}
    /\ UNCHANGED <<symbolTable, symbolTableUsed, canonical, interning>>

\* asSymbol, which is intern: unless the string is a symbol; the first call builds the
\* table that a snapshot does not have.
AsSymbol(s) ==
    /\ ~Running /\ s \in held \ canonical
    /\ interning' = [pc |-> IF symbolTableUsed = nil THEN "count" ELSE "probe", string |-> s,
                     index |-> Index(s, symbolTable), reuseIndex |-> nil]
    /\ symbolTableUsed' = IF symbolTableUsed = nil THEN Capacity(symbolTable) ELSE symbolTableUsed
    /\ UNCHANGED <<symbolTable, canonical, held, made>>

\* Answering: the program gets the symbol in place of the string.
Answer(symbol) ==
    /\ held' = (held \ {interning.string}) \cup {symbol}
    /\ interning' = Idle

(* mutant: a cleared entry ends the search like an unused one *)
SeenOrClearedFirst(entry) == entry \in {Unused, nil}
EndsSearch(entry) == entry = Unused

Probe ==
    LET symbol == symbolTable[interning.index] IN
    /\ interning.pc = "probe" /\ ~EndsSearch(symbol)
    /\ \/ /\ symbol # nil /\ Contents(symbol) = Contents(interning.string)
          /\ Answer(symbol)
       \/ /\ symbol # nil => Contents(symbol) # Contents(interning.string)
          /\ interning' = [interning EXCEPT !.index = Following(@, symbolTable),
                                            !.reuseIndex = IF symbol = nil THEN interning.index ELSE @]
          /\ UNCHANGED held
    /\ UNCHANGED <<symbolTable, symbolTableUsed, canonical, made>>

(* mutant: a reused entry is counted once more *)
UsedAfterAlways == symbolTableUsed + 1
UsedAfter == IF interning.reuseIndex = nil THEN symbolTableUsed + 1 ELSE symbolTableUsed

\* The string becomes the symbol, in a cleared entry or at the end of the search.
Enter ==
    LET reused == interning.reuseIndex # nil IN
    /\ interning.pc = "probe" /\ EndsSearch(symbolTable[interning.index])
    /\ canonical' = canonical \cup {interning.string}
    /\ symbolTable' = [symbolTable EXCEPT ![IF reused THEN interning.reuseIndex ELSE interning.index] =
                         interning.string]
    /\ symbolTableUsed' = UsedAfter
    /\ IF ~reused /\ UsedAfter * 4 > Capacity(symbolTable) * 3
       THEN interning' = [interning EXCEPT !.pc = "count"] /\ UNCHANGED held
       ELSE Answer(interning.string)
    /\ UNCHANGED made

Grown(capacity, live) == IF live > capacity \div 2 THEN 2 * capacity ELSE capacity

\* Counting the cleared entries and making the new table.
BeginRehash ==
    LET dead == Cardinality({i \in DOMAIN symbolTable : symbolTable[i] = nil})
        newCapacity == Grown(Capacity(symbolTable), symbolTableUsed - dead)
    IN /\ interning.pc = "count"
       /\ interning' = [pc |-> "move", string |-> interning.string, oldIndex |-> 1, newUsed |-> 0,
                        newTable |-> [i \in 1..newCapacity |-> Unused]]
       /\ UNCHANGED <<symbolTable, symbolTableUsed, canonical, held, made>>

\* The first unused entry at or after an index.
FreeFrom(t, i) ==
    LET at(k) == ((i - 1 + k) % Capacity(t)) + 1 IN
    at(Min({k \in 0..Capacity(t) - 1 : t[at(k)] = Unused}))

\* One turn of the loop over the old table.
MoveEntry ==
    LET symbol == symbolTable[interning.oldIndex]  new == interning.newTable IN
    /\ interning.pc = "move" /\ interning.oldIndex <= Capacity(symbolTable)
    /\ interning' =
         IF symbol \in {nil, Unused} THEN [interning EXCEPT !.oldIndex = @ + 1]
         ELSE [interning EXCEPT !.oldIndex = @ + 1, !.newUsed = @ + 1,
                                !.newTable[FreeFrom(new, Index(symbol, new))] = symbol]
    /\ UNCHANGED <<symbolTable, symbolTableUsed, canonical, held, made>>

\* The rehash ends: before the search, when the table was a snapshot's, or after it.
EndRehash ==
    /\ interning.pc = "move" /\ interning.oldIndex > Capacity(symbolTable)
    /\ symbolTable' = interning.newTable /\ symbolTableUsed' = interning.newUsed
    /\ IF interning.string \in canonical THEN Answer(interning.string)
       ELSE /\ interning' = [pc |-> "probe", string |-> interning.string, reuseIndex |-> nil,
                             index |-> Index(interning.string, interning.newTable)]
            /\ UNCHANGED held
    /\ UNCHANGED <<canonical, made>>

Forget(s) ==
    /\ s \in held /\ held' = held \ {s}
    /\ UNCHANGED <<symbolTable, symbolTableUsed, canonical, made, interning>>

Cleared(t, S) == [i \in DOMAIN t |-> IF t[i] \in S THEN nil ELSE t[i]]
\* A scavenge clears the young ones, a mark-sweep all that are unreachable.
Collect ==
    \E S \in SUBSET (InTable \ Referenced) :
        /\ S # {}
        /\ symbolTable' = Cleared(symbolTable, S)
        /\ interning' = IF interning.pc = "move"
                        THEN [interning EXCEPT !.newTable = Cleared(@, S)] ELSE interning
        /\ UNCHANGED <<symbolTableUsed, canonical, held, made>>

SymbolsNext ==
    \/ \E s \in Strings : Make(s) \/ AsSymbol(s) \/ Forget(s)
    \/ Probe \/ Enter \/ BeginRehash \/ MoveEntry \/ EndRehash \/ Collect

SymbolsInit ==
    \E S \in SnapshotSymbols :
        /\ \E t \in [1..Cardinality(S) -> S] :
             Entries(t) = S /\ symbolTable = t
        /\ symbolTableUsed = nil /\ canonical = S /\ made = S
        /\ held \in SUBSET S /\ interning = Idle

SymbolsSpec == SymbolsInit /\ [][SymbolsNext]_symbolVars

------------------------------------------------------------------------------
(* Properties. *)

\* Symbols are compared by identity, as selectors are by every lookup: of the symbols
\* that the program can still reach there is one for a sequence of bytes, and all of
\* them are in the table that the next search will see.
OneSymbolEach ==
    LET symbols == canonical \cap held IN
    /\ \A s, t \in symbols : Contents(s) = Contents(t) => s = t
    /\ ~Running => symbols \subseteq Entries(symbolTable)

\* A search and the search for a free entry of a rehash end: one entry is unused
\* whenever they run, however many have been cleared and reused, and the count that
\* decides about growth is exact.
UnusedEntryLeft ==
    /\ interning.pc = "probe" => \E i \in DOMAIN symbolTable : symbolTable[i] = Unused
    /\ interning.pc = "move" => \E i \in DOMAIN interning.newTable : interning.newTable[i] = Unused
    /\ symbolTableUsed # nil =>
         symbolTableUsed = Cardinality({i \in DOMAIN symbolTable : symbolTable[i] # Unused})

\* Of the canonical strings that a program can reach there is one for a sequence of
\* bytes, and asSymbol finds it, whatever the collector clears while it searches or
\* rehashes (KernelForPrimordialSoup.ns:2787-2870); and every search ends.
SymbolsSound == OneSymbolEach /\ UnusedEntryLeft
===============================================================================
