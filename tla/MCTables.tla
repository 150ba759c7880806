-------------------------------- MODULE MCTables --------------------------------
(* The hash tables, PortMap, HandleMap, Symbols and the lookup cache of Dispatch, *)
(* each by itself.                                                                *)
EXTENDS MCPortMap, Symbols, MCDispatch

CONSTANTS LastId, LastString

VARIABLES table, nextId, live, tested

Handles == INSTANCE HandleMap

Symmetry == Permutations(Loop)

\* Two strings of every content, and contents that hash alike.
ContentOf(s) == (s - 1) \div 2
HashOf(content) == content \div 2
SomeStrings == 1..LastString
Snapshots   == {{1}, {1, 3}}

handleVars == <<table, nextId, live>>

TablesInit ==
  /\ Init /\ Handles!Init /\ SymbolsInit /\ DispatchInit
  /\ tested \in {"ports", "handles", "symbols", "dispatch"}
  /\ tested # "symbols" => canonical = {1} /\ held = {}
  /\ tested # "dispatch" =>
       /\ methods.access = CHOOSE some \in MethodTables : TRUE
       /\ place = CHOOSE some \in Placements : TRUE

TablesNext ==
  /\ UNCHANGED tested
  /\ \/ /\ tested = "ports" /\ Next
        /\ UNCHANGED <<handleVars, symbolVars, dispatchVars>>
     \/ /\ tested = "handles" /\ Handles!Next
        /\ UNCHANGED <<vars, symbolVars, dispatchVars>>
     \/ /\ tested = "symbols" /\ SymbolsNext
        /\ UNCHANGED <<vars, handleVars, dispatchVars>>
     \/ /\ tested = "dispatch" /\ DispatchNext
        /\ UNCHANGED <<vars, handleVars, symbolVars>>

TablesSpec ==
  TablesInit /\ [][TablesNext]_<<vars, handleVars, symbolVars, dispatchVars, tested>>

(* HandleMap::Lookup finds exactly the handles registered and not removed,        *)
(* through any sequence of reused slots, rehashes and rehashes within rehashes;   *)
(* its probes and those of Remove end, since a slot is empty.                     *)
FindsLiveHandles ==
  tested = "handles" =>
    /\ Handles!TypeOK /\ Handles!ProbesEnd /\ Handles!CountersSafe
    /\ Handles!FindsExactlyTheLive
===============================================================================
