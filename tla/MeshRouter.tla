----------------------------- MODULE MeshRouter -----------------------------
(***************************************************************************)
(* The adaptive router (backend/myc3lium_router.py): links with a measured *)
(* ETX, and the routes that a background thread computes from them by      *)
(* Dijkstra's algorithm.                                                   *)
(*                                                                         *)
(* compute_routes holds the lock that update_link_metrics takes;           *)
(* record_transmission takes none, and breaks off a measurement that is    *)
(* counting the outcomes at that moment.  One turn of the loop of          *)
(* _dijkstra is one step; which of several nearest nodes it takes, and     *)
(* which of several equally good links to a neighbour, is left open, for   *)
(* it depends on the order of a set and of the insertions into a dict.     *)
(* RSSI, SNR, latency, the power and the choice among the registered       *)
(* radios are left out.                                                    *)
(***************************************************************************)
EXTENDS Naturals, FiniteSets, FiniteSetsExt

CONSTANTS
  Node, Self,     \* Self is the router's node_id
  Transceiver,
  TxWindow,       \* length of the deque of outcomes
  Rate,           \* bound: the successes in a full window that are tried
  Link,           \* bound: the links that are measured, <<local, remote, radio>>
  Unit,           \* an ETX of 1; a multiple of it is divided by 1 .. TxWindow
  MaxRouteEvents  \* bound: measurements, bursts, starts and stops

ASSUME RouterAssumption ==
  /\ IsFiniteSet(Node) /\ Self \in Node
  /\ Link \subseteq Node \X Node \X Transceiver
  /\ TxWindow \in Nat \ {0} /\ Unit \in Nat \ {0}
  /\ Rate \subseteq 0 .. TxWindow /\ MaxRouteEvents \in Nat

VARIABLES
  links,    \* ETX of the links that have been measured
  success,  \* successes in a full window of tx_history, or Few
  routes,   \* [destination -> routes], which has one element or none
  running, loops, \* _running, and the update threads that are alive
  search,   \* what compute_routes is doing, or Resting
  basis,    \* history: the links the last compute_routes has started from
  routeEvents

routerVars == <<links, success, routes, running, loops, search, basis, routeEvents>>

Few == TxWindow + 1           \* fewer outcomes than _calculate_packet_loss wants
Inf == Unit * TxWindow * Cardinality(Node) + 1
None == [ next |-> Self, radio |-> "none", cost |-> 0 ] \* an empty list
Resting == [ dest |-> Self ]

Lesser(x, y) == IF x < y THEN x ELSE y

\* _calculate_packet_loss and update_etx
Etx(n) == CASE n = Few -> Unit [] n = 0 -> Inf [] OTHER -> (Unit * TxWindow) \div n

-----------------------------------------------------------------------------
(* Measurements.                                                           *)

RouteEvent == routeEvents < MaxRouteEvents /\ routeEvents' = routeEvents + 1

\* As many record_transmission as fill the deque.
RecordTransmissions(dest, radio, n) ==
  /\ RouteEvent
  /\ success' = [success EXCEPT ![<<dest, radio>>] = n]
  /\ UNCHANGED <<links, routes, running, loops, search, basis>>

\* The loss is that of this node's own transmissions to the remote end,
\* whichever node the link starts from.
UpdateLinkMetrics(local, remote, radio) ==
  /\ RouteEvent
  /\ search = Resting
  /\ links' = [ l \in DOMAIN links \cup {<<local, remote, radio>>} |->
                  IF l = <<local, remote, radio>> THEN Etx(success[<<remote, radio>>])
                  ELSE links[l] ]
  /\ UNCHANGED <<success, routes, running, loops, search, basis>>

\* record_transmission appends to the deque while _calculate_packet_loss goes
\* through it: RuntimeError, before update_etx.  The link keeps the ETX it has;
\* a new one has that of a LinkMetrics.
UpdateInterrupted(local, remote, radio) ==
  /\ RouteEvent
  /\ search = Resting
  /\ success[<<remote, radio>>] # Few
  /\ links' = [ l \in DOMAIN links \cup {<<local, remote, radio>>} |->
                  IF l \in DOMAIN links THEN links[l] ELSE Unit ]
  /\ UNCHANGED <<success, routes, running, loops, search, basis>>

-----------------------------------------------------------------------------
(* compute_routes                                                          *)

Ends(l) == {l[1], l[2]}
AllNodes(g) == UNION { Ends(l) : l \in DOMAIN g }

\* What is left out of the graph is broken.
Usable(g) == { l \in DOMAIN g : g[l] < Inf }

\* The search for dest begins.
Searching(g, dest, todo) ==
  [ dest |-> dest, todo |-> todo, unvisited |-> { l[1] : l \in Usable(g) },
    distance |-> [ n \in Node |-> IF n = Self THEN 0 ELSE Inf ],
    previous |-> [ n \in Node |-> Self ],
    radioUsed |-> [ n \in Node |-> "none" ] ]

\* The next of the destinations, or the lock is released.
NextSearch(g, todo) ==
  IF todo = {} THEN search' = Resting
  ELSE \E d \in todo : search' = Searching(g, d, todo \ {d})

ComputeRoutes ==
  /\ running /\ loops > 0
  /\ search = Resting
  /\ basis' = links
  /\ NextSearch(links, AllNodes(links) \ {Self})
  /\ UNCHANGED <<links, success, routes, running, loops, routeEvents>>

\* Mutant: the first way found to a node is kept.
FirstWay(old, new) == old = Inf

Improves(old, new) == new < old

Nearest == { n \in search.unvisited :
               \A m \in search.unvisited : search.distance[n] <= search.distance[m] }

\* Back along previous, as far as what Self comes before.
FirstHop[n \in Node] ==
  IF search.previous[n] = Self THEN n ELSE FirstHop[search.previous[n]]

\* The traced path has one entry: its first hop, with the cost of that hop.
Traced ==
  LET hop == FirstHop[search.dest]
  IN  IF search.distance[search.dest] = Inf THEN None
      ELSE [ next |-> hop, radio |-> search.radioUsed[hop],
             cost |-> search.distance[hop] ]

\* The loop ends at dest, at what cannot be reached, or with nothing left.
RouteFound ==
  /\ \/ search.unvisited = {}
     \/ \E n \in Nearest : n = search.dest \/ search.distance[n] = Inf
  /\ routes' = [ d \in DOMAIN routes \cup {search.dest} |->
                   IF d = search.dest THEN Traced ELSE routes[d] ]
  /\ NextSearch(links, search.todo)
  /\ UNCHANGED <<links, success, running, loops, basis, routeEvents>>

\* The links of a node are tried in turn; the best to each neighbour stays.
Visit(current) ==
  LET out == { l \in Usable(links) : l[1] = current }
      best(n) == { l \in out : l[2] = n /\ \A k \in out : k[2] = n => links[l] <= links[k] }
      way(n) == search.distance[current] + links[CHOOSE l \in best(n) : TRUE]
      improved == { n \in { l[2] : l \in out } : Improves(search.distance[n], way(n)) }
  IN  /\ current \in Nearest /\ current # search.dest
      /\ search.distance[current] < Inf
      /\ \E via \in [ improved -> Transceiver ] :
           /\ \A n \in improved : <<current, n, via[n]>> \in best(n)
           /\ search' =
                [ search EXCEPT
                  !.unvisited = search.unvisited \ {current},
                  !.distance = [ n \in Node |-> IF n \in improved THEN way(n) ELSE @[n] ],
                  !.previous = [ n \in Node |-> IF n \in improved THEN current ELSE @[n] ],
                  !.radioUsed = [ n \in Node |-> IF n \in improved THEN via[n] ELSE @[n] ] ]
      /\ UNCHANGED <<links, success, routes, running, loops, basis, routeEvents>>

-----------------------------------------------------------------------------
(* The update thread.                                                      *)

StartRouter ==
  /\ RouteEvent
  /\ ~ running
  /\ running' = TRUE
  /\ loops' = loops + 1
  /\ UNCHANGED <<links, success, routes, search, basis>>

\* The thread is waited for 5 s; it may be asleep for 30.
StopRouter ==
  /\ RouteEvent
  /\ running /\ running' = FALSE
  /\ UNCHANGED <<links, success, routes, loops, search, basis>>

UpdateLoopEnds ==
  /\ ~ running /\ loops > 0 /\ search = Resting
  /\ loops' = loops - 1
  /\ UNCHANGED <<links, success, routes, running, search, basis, routeEvents>>

\* start has been called.
RouterInit ==
  /\ links = << >> /\ success = [ k \in Node \X Transceiver |-> Few ]
  /\ routes = << >> /\ running = TRUE /\ loops = 1 /\ search = Resting
  /\ basis = << >> /\ routeEvents = 0

RouterNext ==
  \/ \E d \in Node \ {Self}, r \in Transceiver, n \in Rate : RecordTransmissions(d, r, n)
  \/ \E l \in Link : UpdateLinkMetrics(l[1], l[2], l[3]) \/ UpdateInterrupted(l[1], l[2], l[3])
  \/ ComputeRoutes
  \/ search # Resting /\ (RouteFound \/ \E n \in search.unvisited : Visit(n))
  \/ StartRouter \/ StopRouter \/ UpdateLoopEnds

RouterSpec == RouterInit /\ [][RouterNext]_routerVars

-----------------------------------------------------------------------------
(* Properties.                                                             *)

\* Every variable keeps its type.
RouterTypeOK ==
  /\ DOMAIN links \subseteq Link /\ \A l \in DOMAIN links : links[l] \in Unit .. Inf
  /\ success \in [ Node \X Transceiver -> 0 .. Few ]
  /\ running \in BOOLEAN /\ loops \in 0 .. 1 + MaxRouteEvents /\ routeEvents \in 0 .. MaxRouteEvents

\* Reference: the length of the shortest way over links of g, by the number of
\* links it has at most.
Edge(g, m, n) ==
  Min({ g[l] : l \in { k \in Usable(g) : k[1] = m /\ k[2] = n } } \cup {Inf})

OneLinkMore(g, length) ==
  [ n \in Node |->
      Min({length[n]} \cup { Lesser(Inf, length[m] + Edge(g, m, n)) : m \in Node }) ]

Lengths(g, from) ==
  LET Within[k \in 0 .. Cardinality(Node)] ==
        IF k = 0 THEN [ n \in Node |-> IF n = from THEN 0 ELSE Inf ]
        ELSE OneLinkMore(g, Within[k - 1])
  IN  Within

Distance(g, from, to) == Lengths(g, from)[Cardinality(Node)][to]

\* The route to d is right for the links g.
RouteRight(g, d) ==
  /\ d \in DOMAIN routes
  /\ IF Distance(g, Self, d) = Inf THEN routes[d] = None
     ELSE LET first == <<Self, routes[d].next, routes[d].radio>>
          IN  /\ first \in Usable(g)
              /\ g[first] + Distance(g, routes[d].next, d) = Distance(g, Self, d)

\* When compute_routes is done, every node that a link mentions has a route
\* exactly if unbroken links lead to it, and the hop and the radio of the route
\* begin one with the least sum of ETX (_dijkstra and its tracing back).  The
\* cost, which is that of the first hop, is not spoken of.
RoutesAreShortest ==
  search = Resting => \A d \in AllNodes(basis) \ {Self} : RouteRight(basis, d)
=============================================================================
