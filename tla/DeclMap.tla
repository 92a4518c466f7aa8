------------------------------ MODULE DeclMap ------------------------------
(***************************************************************************)
(* src/sema/decl_map.c: the scopes of the type checker as two linked       *)
(* lists of heap nodes, the open scopes (active) and the popped ones kept  *)
(* for reuse (cache).  Each node owns a hash map, which is taken at the    *)
(* level of IdMap: a finite function of names.  Lookups and the            *)
(* destructor walk a list one node a step.  The user is type_check, which  *)
(* may abandon its scopes at any lookup (longjmp) and then destroys the    *)
(* lists as they are.                                                      *)
(***************************************************************************)
EXTENDS Naturals, FiniteSets

CONSTANTS Nodes,     \* addresses malloc can return for a DeclMapNode
          Names, Decls, NoDecl,
          NULL

ASSUME DeclMapAssumption == IsFiniteSet(Nodes) /\ Nodes # {} /\ NULL \notin Nodes

VARIABLES active, cache,  \* struct DeclMap
          next, map,      \* struct DeclMapNode
          live,           \* the nodes that malloc gave out and nobody freed
          pc,             \* the function in progress
          node, name,     \* the local of the list walks, the name sought
          answer          \* what DeclMap_get returned last

lists == <<active, cache, next>>
vars == <<lists, map, live, pc, node, name, answer>>

NoScope == [n \in {} |-> NoDecl]

Init ==
    \E first \in Nodes :
        /\ active = first /\ cache = NULL
        /\ next = [n \in Nodes |-> NULL]
        /\ map = [n \in Nodes |-> NoScope]
        /\ live = {first}
        /\ pc = "ready" /\ node = NULL /\ name = NoDecl
        /\ answer = NoDecl

Quiet == UNCHANGED <<pc, node, name, answer>>

(* Push on a cached node, which HashMap_reset left empty.                  *)
PushCached ==
    /\ pc = "ready" /\ cache # NULL
    /\ cache' = next[cache]
    /\ next' = [next EXCEPT ![cache] = active]
    /\ active' = cache
    /\ UNCHANGED <<map, live>> /\ Quiet

(* Push on a new node, whose map HashMap_init makes empty.                 *)
PushNew(n) ==
    /\ pc = "ready" /\ cache = NULL
    /\ n \notin live
    /\ live' = live \cup {n}
    /\ map' = [map EXCEPT ![n] = NoScope]
    /\ next' = [next EXCEPT ![n] = active]
    /\ active' = n
    /\ UNCHANGED cache /\ Quiet

(* Slips: the node is linked after cache has been overwritten with it, and *)
(* the reset of its map is forgotten.                                      *)
PopLinkedLate ==
    /\ pc = "ready" /\ next[active] # NULL
    /\ active' = next[active]
    /\ next' = [next EXCEPT ![active] = active]
    /\ cache' = active
    /\ map' = [map EXCEPT ![active] = NoScope]
    /\ UNCHANGED live /\ Quiet

PopUncleared ==
    /\ pc = "ready" /\ next[active] # NULL
    /\ active' = next[active]
    /\ next' = [next EXCEPT ![active] = cache]
    /\ cache' = active
    /\ UNCHANGED <<map, live>> /\ Quiet

(* type_check pops only the scopes it pushed after the first.              *)
PopScope ==
    /\ pc = "ready" /\ next[active] # NULL
    /\ active' = next[active]
    /\ next' = [next EXCEPT ![active] = cache]
    /\ cache' = active
    /\ map' = [map EXCEPT ![active] = NoScope]
    /\ UNCHANGED live /\ Quiet

Declare(n, d) ==
    /\ pc = "ready"
    /\ map' = [map EXCEPT ![active] =
                 [m \in DOMAIN @ \cup {n} |-> IF m = n THEN d ELSE @[m]]]
    /\ UNCHANGED <<lists, live>> /\ Quiet

-----------------------------------------------------------------------------
(* DeclMap_get: one node a step.                                           *)
BeginGet(n) ==
    /\ pc = "ready"
    /\ pc' = "get" /\ node' = active /\ name' = n
    /\ UNCHANGED <<lists, map, live, answer>>

EndGet(d) ==
    /\ pc' = "ready" /\ node' = NULL /\ name' = NoDecl
    /\ answer' = d
    /\ UNCHANGED <<lists, map, live>>

GetHere == /\ pc = "get" /\ node # NULL /\ name \in DOMAIN map[node]
           /\ EndGet(map[node][name])

GetOuter == /\ pc = "get" /\ node # NULL /\ name \notin DOMAIN map[node]
            /\ node' = next[node]
            /\ UNCHANGED <<lists, map, live, pc, name, answer>>

GetNowhere == pc = "get" /\ node = NULL /\ EndGet(NoDecl)

-----------------------------------------------------------------------------
(* DeclMap_destroy: free the active list, then the cache.                  *)
BeginDestroy ==
    /\ pc = "ready"
    /\ pc' = "destroy_active" /\ node' = active
    /\ UNCHANGED <<lists, map, live, name, answer>>

(* HashMap_destroy gives the node's declarations back with the node.       *)
FreeNode ==
    /\ pc \in {"destroy_active", "destroy_cache"} /\ node # NULL
    /\ live' = live \ {node}
    /\ map' = [map EXCEPT ![node] = NoScope]
    /\ node' = next[node]
    /\ UNCHANGED <<lists, pc, name, answer>>

(* Slips: the active list is destroyed twice, the cache not at all.        *)
DestroyActiveAgain ==
    /\ pc = "destroy_active" /\ node = NULL
    /\ pc' = "destroy_cache" /\ node' = active
    /\ UNCHANGED <<lists, map, live, name, answer>>

DestroyNoCache ==
    /\ pc = "destroy_active" /\ node = NULL
    /\ pc' = "destroyed"
    /\ UNCHANGED <<lists, map, live, node, name, answer>>

DestroyCache ==
    /\ pc = "destroy_active" /\ node = NULL
    /\ pc' = "destroy_cache" /\ node' = cache
    /\ UNCHANGED <<lists, map, live, name, answer>>

EndDestroy ==
    /\ pc = "destroy_cache" /\ node = NULL
    /\ pc' = "destroyed"
    /\ UNCHANGED <<lists, map, live, node, name, answer>>

(* Slip: DeclMap_init does not push the first scope.                       *)
InitUnpushed(n) ==
    /\ pc = "destroyed" /\ n \notin live
    /\ active' = NULL /\ cache' = NULL
    /\ pc' = "ready"
    /\ UNCHANGED <<next, map, live, node, name, answer>>

(* Another type_check in the same process: DeclMap_init.                   *)
InitAgain(n) ==
    /\ pc = "destroyed" /\ n \notin live
    /\ active' = n /\ cache' = NULL
    /\ next' = [next EXCEPT ![n] = NULL]
    /\ map' = [map EXCEPT ![n] = NoScope]
    /\ live' = live \cup {n}
    /\ pc' = "ready"
    /\ UNCHANGED <<node, name, answer>>

Next == \/ PushCached \/ PopScope \/ BeginDestroy
        \/ GetHere \/ GetOuter \/ GetNowhere
        \/ FreeNode \/ DestroyCache \/ EndDestroy
        \/ \E n \in Nodes : PushNew(n) \/ InitAgain(n)
        \/ \E n \in Names : BeginGet(n) \/ \E d \in Decls : Declare(n, d)

Spec == Init /\ [][Next]_vars

-----------------------------------------------------------------------------
(* The i-th node of the list that starts at h, NULL beyond its end.        *)
Walk(h) ==
    LET w[i \in 0 .. Cardinality(Nodes)] ==
            IF i = 0 THEN h
            ELSE IF w[i - 1] = NULL THEN NULL ELSE next[w[i - 1]]
    IN w

OnList(h) == {Walk(h)[i] : i \in 0 .. Cardinality(Nodes)} \ {NULL}
Ends(h) == Walk(h)[Cardinality(Nodes)] = NULL
Depth(h) == Cardinality(OnList(h))

TypeOK ==
    /\ active \in Nodes /\ cache \in Nodes \cup {NULL}
    /\ next \in [Nodes -> Nodes \cup {NULL}]
    /\ \A n \in Nodes : DOMAIN map[n] \subseteq Names
                        /\ \A m \in DOMAIN map[n] : map[n][m] \in Decls
    /\ live \subseteq Nodes
    /\ pc \in {"ready", "get", "destroy_active", "destroy_cache", "destroyed"}
    /\ node \in Nodes \cup {NULL}
    /\ name \in Names \cup {NoDecl}
    /\ answer \in Decls \cup {NoDecl}

(* Between calls and during lookups every allocated node is on exactly one *)
(* of the two lists, and both lists end: pushing, popping and recycling    *)
(* neither lose a node nor link one twice.  No walk of a list reads a node *)
(* that has been freed, nor does the destructor free one twice: what lies  *)
(* ahead of it is still allocated.                                         *)
NodesKept ==
    /\ pc \in {"ready", "get"} =>
          /\ Ends(active) /\ Ends(cache)
          /\ OnList(active) \cap OnList(cache) = {}
          /\ OnList(active) \cup OnList(cache) = live
    /\ pc \in {"get", "destroy_active", "destroy_cache"} => OnList(node) \subseteq live
    /\ pc = "destroy_active" => OnList(cache) \subseteq live \ OnList(node)

(* The destructor frees every node of both lists, whatever scopes were     *)
(* open when type checking gave up.                                        *)
NothingLeaked == pc = "destroyed" => live = {}

(* The open scopes as the type checker means them.                         *)
Scopes == IF pc \in {"ready", "get"}
          THEN [i \in 1 .. Depth(active) |-> map[Walk(active)[i - 1]]]
          ELSE [i \in 1 .. 0 |-> NoScope]

Stack == INSTANCE ScopeStack WITH scopes <- Scopes, answer <- answer

(* The two lists of recycled nodes implement a stack of scopes: inner      *)
(* declarations hide outer ones and are gone after the pop, also when the  *)
(* node is used again.                                                     *)
ImplementsScopeStack == Stack!Spec
=============================================================================
