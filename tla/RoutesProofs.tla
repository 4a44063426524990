---------------------------- MODULE RoutesProofs ----------------------------
(***************************************************************************)
(* TLAPS proofs about Routes under serializable isolation: every route   *)
(* row keeps the shape of a types.Route, and no non-exit prefix ever has *)
(* two primaries.                                                         *)
(***************************************************************************)
EXTENDS Routes, FiniteSetTheorems, TLAPS

(* A route row is never the "no row" sentinel. *)
LEMMA RowNotAbsent ==
    ASSUME NEW r \in RouteRow
    PROVE  r # NoRoute
BY DEF RouteRow, NoRoute

(* A set whose elements are all equal has at most one element. *)
LEMMA AtMostOneElement ==
    ASSUME NEW S, \A a, b \in S : a = b
    PROVE  Cardinality(S) <= 1
<1>1. CASE S = {}  BY <1>1, FS_EmptySet
<1>2. CASE S # {}
  <2>1. PICK a \in S : TRUE  BY <1>2
  <2>2. S = {a}  BY <2>1
  <2>. QED  BY <2>2, FS_Singleton
<1>. QED  BY <1>1, <1>2

-----------------------------------------------------------------------------
(* enableRoutes only sets IsPrimary on a row it also enables. *)
PrimaryEnabled ==
    \A n \in Nodes, p \in Prefixes :
        HasRoute(n, p) /\ routes[n][p].primary => routes[n][p].enabled

(* Two primaries of the same non-exit prefix are the same node. *)
UniquePrimary ==
    \A p \in Prefixes \ ExitPrefixes, n, m \in Nodes :
        n \in Primaries(p) /\ m \in Primaries(p) => n = m

(* Under SerialSpec no transaction is ever half done. *)
NoneOpen == \A n \in Nodes : pending[n] = NoPending

(* The inductive invariant: a node can only be elected when no other     *)
(* node offers the prefix, and a primary is always enabled, so it is an  *)
(* offer every later election sees.                                       *)
RInv == RoutesTypeOK /\ PrimaryEnabled /\ UniquePrimary /\ NoneOpen

(* A step never takes the primary role from one node to give it to       *)
(* another: the primaries of a prefix only shrink, or it had none.        *)
NoSteal ==
    \A p \in Prefixes \ ExitPrefixes :
        Primaries(p)' \subseteq Primaries(p) \/ Primaries(p) = {}

(* A step that writes well-typed rows, creates no primary, and keeps   *)
(* every remaining primary enabled preserves the invariant.             *)
LEMMA NoNewPrimary ==
    ASSUME RInv,
           routes' \in [Nodes -> [Prefixes -> RouteRow \cup {NoRoute}]],
           deleted' \subseteq Nodes,
           pending' = pending,
           \A m \in Nodes, q \in Prefixes :
              HasRoute(m, q)' /\ routes'[m][q].primary =>
                HasRoute(m, q) /\ routes[m][q].primary /\ routes'[m][q].enabled
    PROVE  RInv' /\ NoSteal
<1>1. RoutesTypeOK'  BY RoutesAssumption DEF RInv, RoutesTypeOK, NoneOpen
<1>2. PrimaryEnabled'  BY DEF PrimaryEnabled
<1>3. \A q \in Prefixes : Primaries(q)' \subseteq Primaries(q)  BY DEF Primaries
<1>4. UniquePrimary'  BY <1>3 DEF RInv, UniquePrimary
<1>5. NoneOpen'  BY DEF RInv, NoneOpen
<1>. QED  BY <1>1, <1>2, <1>3, <1>4, <1>5 DEF RInv, NoSteal

LEMMA RInvInit == Init => RInv
<1> SUFFICES ASSUME Init PROVE RInv  OBVIOUS
<1>1. \A n \in Nodes, p \in Prefixes : ~HasRoute(n, p)  BY DEF Init, HasRoute
<1>2. RoutesTypeOK  BY <1>1, RoutesAssumption DEF Init, RoutesTypeOK
<1>3. PrimaryEnabled /\ UniquePrimary  BY <1>1 DEF PrimaryEnabled, UniquePrimary, Primaries
<1>4. NoneOpen  BY DEF Init, NoneOpen
<1>. QED  BY <1>2, <1>3, <1>4 DEF RInv

LEMMA RInvNext == RInv /\ [SerialNext]_rvars => RInv' /\ NoSteal
<1> SUFFICES ASSUME RInv, [SerialNext]_rvars PROVE RInv' /\ NoSteal  OBVIOUS
<1>. USE DEF RInv
<1>1. ASSUME NEW n \in Nodes, NEW batch \in SUBSET Prefixes, EnableRoutes(n, batch)
      PROVE  RInv' /\ NoSteal
  <2>. DEFINE po == [q \in batch |-> IsUniquePrefix(n, q)]
  <2>1. /\ batch \subseteq GetAdvertisedRoutes(n)
        /\ routes' = [routes EXCEPT ![n] = Enabled(n, routes[n], batch, po)]
        /\ UNCHANGED <<deleted, pending>>
    BY <1>1 DEF EnableRoutes, Valid
  <2>0. \A q \in batch : po[q] \in BOOLEAN  BY DEF IsUniquePrefix
  <2>2. \A q \in batch : routes[n][q] \in RouteRow
    BY <2>1 DEF GetAdvertisedRoutes, RoutesTypeOK, HasRoute
  (* What the step writes into each row. *)
  <2>3. \A m \in Nodes, q \in Prefixes :
          routes'[m][q] =
            IF m = n /\ q \in batch
            THEN Row(routes[n][q].advertised, TRUE,
                     IF q \in ExitPrefixes THEN routes[n][q].primary ELSE po[q])
            ELSE routes[m][q]
    BY <2>1 DEF Enabled, RoutesTypeOK
  <2>4. ASSUME NEW q \in batch
        PROVE  /\ routes'[n][q] \in RouteRow
               /\ routes'[n][q].enabled
               /\ routes'[n][q].primary =
                    IF q \in ExitPrefixes THEN routes[n][q].primary ELSE po[q]
    <3>1. routes'[n][q] =
            Row(routes[n][q].advertised, TRUE,
                IF q \in ExitPrefixes THEN routes[n][q].primary ELSE po[q])
      BY <2>3
    <3>2. routes[n][q].advertised \in BOOLEAN /\ routes[n][q].primary \in BOOLEAN
      BY <2>2 DEF RouteRow
    <3>. QED  BY <3>1, <3>2, <2>0 DEF RouteRow, Row
  <2>5. RoutesTypeOK'
    <3>1. routes' \in [Nodes -> [Prefixes -> RouteRow \cup {NoRoute}]]
      BY <2>1, <2>4 DEF RoutesTypeOK, Enabled
    <3>2. ASSUME NEW m \in Nodes, NEW x \in ExitPrefixes, HasRoute(m, x)'
          PROVE  ~routes'[m][x].primary
      <4>1. CASE m = n /\ x \in batch
        <5>1. routes'[n][x].primary = routes[n][x].primary  BY <4>1, <2>4
        <5>2. HasRoute(n, x)  BY <4>1, <2>2, RowNotAbsent DEF HasRoute
        <5>. QED  BY <5>1, <5>2, <4>1 DEF RoutesTypeOK
      <4>2. CASE ~(m = n /\ x \in batch)
        BY <4>2, <3>2, <2>3, RoutesAssumption DEF RoutesTypeOK, HasRoute
      <4>. QED  BY <4>1, <4>2
    <3>. QED  BY <3>1, <3>2, <2>1 DEF RoutesTypeOK
  <2>6. PrimaryEnabled'
    BY <2>3, <2>4 DEF PrimaryEnabled, HasRoute
  <2>7. ASSUME NEW q \in Prefixes \ ExitPrefixes
        PROVE  /\ Primaries(q)' \ {n} \subseteq Primaries(q)
               /\ Primaries(q)' \subseteq Primaries(q) \/ Primaries(q) = {}
    <3>1. Primaries(q)' \ {n} \subseteq Primaries(q)
      BY <2>3 DEF Primaries, HasRoute
    (* If n is newly elected, IsUniquePrefix(n, q) saw no other offer; *)
    (* every other primary of q was primary before, hence enabled.     *)
    <3>2. CASE n \in Primaries(q)' /\ n \notin Primaries(q)
      <4>1. q \in batch  BY <3>2, <2>3 DEF Primaries, HasRoute
      <4>2. po[q]  BY <3>2, <4>1, <2>4 DEF Primaries
      <4>3. ASSUME NEW c \in Primaries(q)  PROVE FALSE
        <5>1. c # n  BY <3>2, <4>3
        <5>2. HasRoute(c, q) /\ routes[c][q].primary /\ c \in Nodes
          BY <4>3 DEF Primaries
        <5>3. routes[c][q].enabled  BY <5>2 DEF PrimaryEnabled
        <5>. QED  BY <5>1, <5>2, <5>3, <4>1, <4>2 DEF IsUniquePrefix
      <4>. QED  BY <4>3, <3>1
    <3>3. CASE ~(n \in Primaries(q)' /\ n \notin Primaries(q))
      BY <3>3, <3>1
    <3>. QED  BY <3>1, <3>2, <3>3
  <2>9. UniquePrimary'
    <3> SUFFICES ASSUME NEW q \in Prefixes \ ExitPrefixes, NEW a \in Nodes,
                        NEW b \in Nodes, a \in Primaries(q)', b \in Primaries(q)'
                 PROVE  a = b
      BY DEF UniquePrimary
    <3>1. CASE Primaries(q) = {}  BY <3>1, <2>7
    <3>2. CASE Primaries(q)' \subseteq Primaries(q)  BY <3>2 DEF UniquePrimary
    <3>. QED  BY <3>1, <3>2, <2>7
  <2>8. NoneOpen'  BY <2>1 DEF NoneOpen
  <2>. QED  BY <2>5, <2>6, <2>7, <2>8, <2>9 DEF NoSteal
<1>2. ASSUME NEW n \in Nodes, NEW p \in Prefixes, NEW adv \in BOOLEAN,
             Advertise(n, p, adv)
      PROVE  RInv' /\ NoSteal
  <2>1. \A m \in Nodes, q \in Prefixes :
          routes'[m][q] =
            IF m = n /\ q = p
            THEN IF HasRoute(n, p)
                 THEN Row(adv, routes[n][p].enabled, routes[n][p].primary)
                 ELSE Row(adv, FALSE, FALSE)
            ELSE routes[m][q]
    BY <1>2 DEF Advertise, RoutesTypeOK
  <2>2. routes[n][p] \in RouteRow \cup {NoRoute}  BY DEF RoutesTypeOK
  <2>3. /\ routes'[n][p] \in RouteRow
        /\ routes'[n][p].primary => HasRoute(n, p) /\ routes[n][p].primary
        /\ HasRoute(n, p) => routes'[n][p].enabled = routes[n][p].enabled
    <3>1. CASE HasRoute(n, p)
      BY <3>1, <2>1, <2>2 DEF RouteRow, HasRoute, Row
    <3>2. CASE ~HasRoute(n, p)
      <4>1. routes'[n][p] = Row(adv, FALSE, FALSE)  BY <3>2, <2>1
      <4>2. routes'[n][p] \in RouteRow /\ ~routes'[n][p].primary
        BY <4>1 DEF RouteRow, Row
      <4>. QED  BY <4>2, <3>2
    <3>. QED  BY <3>1, <3>2
  <2>4. routes' \in [Nodes -> [Prefixes -> RouteRow \cup {NoRoute}]]
    BY <1>2, <2>3 DEF Advertise, RoutesTypeOK
  <2>. QED
    BY <1>2, <2>1, <2>3, <2>4, NoNewPrimary DEF Advertise, RoutesTypeOK,
                                               PrimaryEnabled, HasRoute
<1>3. ASSUME NEW n \in Nodes, DeleteNode(n)  PROVE RInv' /\ NoSteal
  <2>1. \A m \in Nodes, q \in Prefixes :
          routes'[m][q] = IF m = n THEN NoRoute ELSE routes[m][q]
    BY <1>3 DEF DeleteNode, RoutesTypeOK
  <2>2. routes' \in [Nodes -> [Prefixes -> RouteRow \cup {NoRoute}]]
    BY <1>3 DEF DeleteNode, RoutesTypeOK
  <2>. QED
    BY <1>3, <2>1, <2>2, NoNewPrimary DEF DeleteNode, RoutesTypeOK,
                                         PrimaryEnabled, HasRoute
<1>4. CASE UNCHANGED rvars
  BY <1>4, NoNewPrimary DEF rvars, RoutesTypeOK, PrimaryEnabled, HasRoute
<1>. QED  BY <1>1, <1>2, <1>3, <1>4 DEF SerialNext, Others

-----------------------------------------------------------------------------
(* Every reachable row of the serial route table is a types.Route of its *)
(* prefix: enableRoutes never marks an exit route primary.               *)
THEOREM RoutesTypeCorrect == SerialSpec => []RoutesTypeOK
<1>1. RInv => RoutesTypeOK  BY DEF RInv
<1>2. RInv /\ [SerialNext]_rvars => RInv'  BY RInvNext
<1>. QED  BY <1>1, <1>2, RInvInit, PTL DEF SerialSpec

(* Spec sections 3 and 5: whatever the order of advertisements,          *)
(* withdrawals, deletions and serializable enableRoutes transactions, no  *)
(* non-exit prefix has two primary routers.                               *)
THEOREM SinglePrimary == SerialSpec => []AtMostOnePrimary
<1>1. RInv => AtMostOnePrimary
  <2> SUFFICES ASSUME RInv, NEW p \in Prefixes \ ExitPrefixes
               PROVE  Cardinality(Primaries(p)) <= 1
    BY DEF AtMostOnePrimary
  <2>1. \A a, b \in Primaries(p) : a = b  BY DEF RInv, UniquePrimary, Primaries
  <2>. QED  BY <2>1, AtMostOneElement
<1>2. RInv /\ [SerialNext]_rvars => RInv'  BY RInvNext
<1>. QED  BY <1>1, <1>2, RInvInit, PTL DEF SerialSpec

-----------------------------------------------------------------------------
(* The refinement of PrimaryElection. *)

(* The abstract primary of a set of primaries with at most one member. *)
LEMMA MapOfPrimaries ==
    ASSUME NEW S \in SUBSET Nodes, \A a, b \in S : a = b
    PROVE  LET M == IF S = {} THEN NoPrimary ELSE CHOOSE x \in S : TRUE
           IN  /\ M \in Nodes \cup {NoPrimary}
               /\ M = NoPrimary <=> S = {}
               /\ S # {} => S = {M}
BY RoutesAssumption

LEMMA ElectionInit == Init => Election!Init
<1> SUFFICES ASSUME Init PROVE Election!Init  OBVIOUS
<1>1. \A p \in Prefixes : Primaries(p) = {}  BY DEF Init, Primaries, HasRoute
<1>. QED  BY <1>1 DEF Election!Init, primaryMap

LEMMA ElectionStep == RInv /\ RInv' /\ NoSteal => Election!Next
<1> SUFFICES ASSUME RInv, RInv', NoSteal PROVE Election!Next  OBVIOUS
<1>1. ASSUME NEW p \in Prefixes \ ExitPrefixes
      PROVE  /\ Primaries(p) \in SUBSET Nodes
             /\ Primaries(p)' \in SUBSET Nodes
             /\ \A a, b \in Primaries(p) : a = b
             /\ \A a, b \in Primaries(p)' : a = b
  BY DEF RInv, UniquePrimary, Primaries
<1>2. primaryMap' \in [Prefixes \ ExitPrefixes -> Nodes \cup {NoPrimary}]
  BY <1>1, MapOfPrimaries DEF primaryMap
<1>3. ASSUME NEW p \in Prefixes \ ExitPrefixes
      PROVE  \/ primaryMap'[p] = primaryMap[p]
             \/ primaryMap[p] = NoPrimary /\ primaryMap'[p] \in Nodes
             \/ primaryMap[p] # NoPrimary /\ primaryMap'[p] = NoPrimary
  <2>. DEFINE P == Primaries(p)
              Q == Primaries(p)'
  <2>1. /\ primaryMap[p] = IF P = {} THEN NoPrimary ELSE CHOOSE x \in P : TRUE
        /\ primaryMap'[p] = IF Q = {} THEN NoPrimary ELSE CHOOSE x \in Q : TRUE
    BY DEF primaryMap
  <2>2. /\ primaryMap[p] \in Nodes \cup {NoPrimary}
        /\ primaryMap[p] = NoPrimary <=> P = {}
        /\ P # {} => P = {primaryMap[p]}
    BY <2>1, <1>1, MapOfPrimaries
  <2>3. /\ primaryMap'[p] \in Nodes \cup {NoPrimary}
        /\ primaryMap'[p] = NoPrimary <=> Q = {}
        /\ Q # {} => Q = {primaryMap'[p]}
    BY <2>1, <1>1, MapOfPrimaries
  <2>4. Q \subseteq P \/ P = {}  BY DEF NoSteal
  <2>. QED  BY <2>2, <2>3, <2>4
<1>. QED  BY <1>2, <1>3 DEF Election!Next, Election!Elect, Election!Resign

(* Spec sections 3 and 4.4: under serializable enableRoutes, the route   *)
(* table implements the abstract election, for every number of nodes and *)
(* prefixes: a prefix gains a primary only when it has none, and a       *)
(* primary is never handed straight to another node.                     *)
THEOREM ElectionRefined == SerialSpec => ElectionSpec
<1>1. RInv /\ [SerialNext]_rvars => RInv' /\ NoSteal  BY RInvNext
<1>2. RInv /\ RInv' /\ NoSteal => [Election!Next]_primaryMap  BY ElectionStep
<1>3. RInv /\ [SerialNext]_rvars => [Election!Next]_primaryMap  BY <1>1, <1>2
<1>. QED  BY <1>1, <1>3, RInvInit, ElectionInit, PTL
          DEF SerialSpec, ElectionSpec, Election!Spec
=============================================================================
