------------------------- MODULE StopDecisionProofs -------------------------
(***************************************************************************)
(* Proofs about LocationSources and StopDecision, for any number of        *)
(* concurrent Solves, requests, lines and vertices: the table of source    *)
(* maps counts the calls in flight, a client that sends one setBreakpoints *)
(* at a time is told what the registry holds, and a client that edits at   *)
(* stops only is stopped where its last answer says.                       *)
(***************************************************************************)
EXTENDS StopDecision, FiniteSetTheorems, WellFoundedInduction, TLAPS

TableInv == TypeOK /\ CountsInFlight

LEMMA InFlightFinite ==
  ASSUME NEW s
  PROVE  IsFiniteSet(InFlight(s)) /\ Cardinality(InFlight(s)) \in Nat
<1>1. InFlight(s) \in SUBSET Solves
  BY DEF InFlight
<1>2. IsFiniteSet(InFlight(s))
  BY <1>1, SourcesAssumption, FS_Subset
<1> QED BY <1>2, FS_CardinalityType

LEMMA InitTable == Init => TableInv
<1> SUFFICES ASSUME Init PROVE TableInv
  OBVIOUS
<1>1. TypeOK
  BY DEF Init, TypeOK
<1>2. \A s \in Sources : InFlight(s) = {}
  BY DEF Init, InFlight
<1> QED BY <1>1, <1>2, FS_EmptySet DEF Init, TableInv, CountsInFlight

LEMMA BeginTable ==
  ASSUME TableInv, NEW c \in Solves, BeginSolve(c)
  PROVE  TableInv'
<1> USE SourcesAssumption DEF TableInv
<1>1. TypeOK'
  <2>1. SourceOf[c] \in Sources
    OBVIOUS
  <2>2. sources' \in [Sources -> Nat]
    BY <2>1 DEF TypeOK, BeginSolve, addLocationSource
  <2>3. phase' \in [Solves -> {"idle", "solving", "returned"}]
    BY DEF TypeOK, BeginSolve
  <2> QED BY <2>2, <2>3 DEF TypeOK
<1>2. ASSUME NEW s \in Sources
      PROVE  sources'[s] = Cardinality(InFlight(s)')
  <2>1. CASE s = SourceOf[c]
    <3>1. InFlight(s)' = InFlight(s) \cup {c} /\ c \notin InFlight(s)
      BY <2>1 DEF TypeOK, BeginSolve, InFlight
    <3>2. Cardinality(InFlight(s) \cup {c}) = Cardinality(InFlight(s)) + 1
      BY <3>1, InFlightFinite, FS_AddElement
    <3> QED BY <2>1, <3>1, <3>2 DEF TypeOK, CountsInFlight, BeginSolve, addLocationSource
  <2>2. CASE s # SourceOf[c]
    <3>1. InFlight(s)' = InFlight(s)
      BY <2>2 DEF TypeOK, BeginSolve, InFlight
    <3> QED BY <2>2, <3>1 DEF TypeOK, CountsInFlight, BeginSolve, addLocationSource
  <2> QED BY <2>1, <2>2
<1> QED BY <1>1, <1>2 DEF CountsInFlight

LEMMA EndTable ==
  ASSUME TableInv, NEW c \in Solves, EndSolve(c)
  PROVE  TableInv'
<1> USE SourcesAssumption DEF TableInv
<1>1. TypeOK'
  <2>1. SourceOf[c] \in Sources
    OBVIOUS
  <2>2. sources' \in [Sources -> Nat]
    BY <2>1 DEF TypeOK, EndSolve, deleteLocationSource
  <2>3. phase' \in [Solves -> {"idle", "solving", "returned"}]
    BY DEF TypeOK, EndSolve
  <2> QED BY <2>2, <2>3 DEF TypeOK
<1>2. ASSUME NEW s \in Sources
      PROVE  sources'[s] = Cardinality(InFlight(s)')
  <2>1. CASE s = SourceOf[c]
    <3>1. InFlight(s)' = InFlight(s) \ {c} /\ c \in InFlight(s)
      BY <2>1 DEF TypeOK, EndSolve, InFlight
    <3>2. Cardinality(InFlight(s) \ {c}) = Cardinality(InFlight(s)) - 1
      BY <3>1, InFlightFinite, FS_RemoveElement
    <3>3. Cardinality(InFlight(s)) > 0
      BY <3>1, InFlightFinite, FS_EmptySet
    <3> QED BY <2>1, <3>1, <3>2, <3>3 DEF TypeOK, CountsInFlight, EndSolve, deleteLocationSource
  <2>2. CASE s # SourceOf[c]
    <3>1. InFlight(s)' = InFlight(s)
      BY <2>2 DEF TypeOK, EndSolve, InFlight
    <3> QED BY <2>2, <3>1 DEF TypeOK, CountsInFlight, EndSolve, deleteLocationSource
  <2> QED BY <2>1, <2>2
<1> QED BY <1>1, <1>2 DEF CountsInFlight

LEMMA TableStep == TableInv /\ [Next]_vars => TableInv'
<1>1. TableInv /\ UNCHANGED vars => TableInv'
  BY DEF TableInv, TypeOK, CountsInFlight, InFlight, vars
<1> QED BY <1>1, BeginTable, EndTable DEF Next

\* The table counts the calls in flight, whatever their number and order
\* (controller.go, addLocationSource and deleteLocationSource).
THEOREM TableCounts == Spec => []CountsInFlight
<1>1. TableInv => CountsInFlight
  BY DEF TableInv
<1> QED BY InitTable, TableStep, <1>1, PTL DEF Spec

\* A vertex is located exactly while a definition that maps it is being
\* solved (controller.go, getLocation and the two Solve wrappers).
THEOREM LocatedInFlight == Spec => []LocatedWhileSolving
<1>1. CountsInFlight => LocatedWhileSolving
  <2> SUFFICES ASSUME CountsInFlight, NEW v \in Vertices
               PROVE  Located(v) <=>
                        \E c \in Solves : phase[c] = "solving" /\ v \in Mapped[SourceOf[c]]
    BY DEF LocatedWhileSolving
  <2>1. \A s \in Sources : sources[s] > 0 <=> InFlight(s) # {}
    BY InFlightFinite, FS_EmptySet DEF CountsInFlight
  <2> QED BY <2>1, SourcesAssumption DEF Located, InFlight
<1> QED BY <1>1, TableCounts, PTL
-----------------------------------------------------------------------------
(* The decision: its inductive invariant *)

Answers == UNION {[D -> R!LineBreakpoints] : D \in SUBSET Nat}

Progress == {"none", "clear", "onFail", "adding", "answered"}

DecisionTypeOK ==
  /\ DOMAIN breakpoints \subseteq R!Keys
  /\ breakpointIndex \in Nat
  /\ keys \subseteq R!Keys
  /\ pending \subseteq R!Events
  /\ handler = "judging" => judged \in R!Events
  /\ request \in [Requests -> [at : Progress, next : Nat \ {0}, ids : Answers]]
  /\ answer \in Answers

\* The registry is on-fail and the breakpoints ids names.
Registered(ids) ==
  /\ DOMAIN breakpoints = DOMAIN ids \cup {OnFail}
  /\ breakpoints[OnFail] = OnFail
  /\ \A k \in DOMAIN ids : breakpoints[k] = ids[k]

\* What a request has built so far, when no other is at work.
RegistryInv ==
  client # "eager" =>
    /\ \A p, q \in Editing : p = q
    /\ Editing = {} => Registered(answer)
    /\ \A q \in Requests :
         LET ids == request[q].ids IN
         /\ request[q].at \in {"none", "clear", "onFail"} => DOMAIN ids = {}
         /\ request[q].at = "onFail" => DOMAIN breakpoints = {} /\ breakpointIndex = 0
         /\ request[q].at = "adding" =>
              Registered(ids) /\ \A k \in DOMAIN ids : k < breakpointIndex

\* The registry rests while a step is judged: what ForEach has visited is all
\* there was to visit.
JudgedInv ==
  client = "stopped" =>
    /\ process = "up"
    /\ ~launched => handler = "idle" /\ pending = {} /\ \A c \in Solves : phase[c] = "idle"
    /\ Editing # {} => ~launched \/ handler = "stopped"
    /\ handler = "judging" =>
         /\ keys \subseteq DOMAIN breakpoints
         /\ hits = {k \in DOMAIN breakpoints \ keys : R!IsTarget(breakpoints[k], judged)}

CoreInv == DecisionTypeOK /\ RegistryInv /\ JudgedInv

DecisionInv == TableInv /\ CoreInv

-----------------------------------------------------------------------------
(* Lemmas *)

LEMMA KeyAssumptions ==
  /\ OnFail \notin Nat /\ OnFail \notin R!LineBreakpoints
  /\ Lines \subseteq Nat
BY DecisionAssumption DEF R!BreakpointsAssumption, R!LineBreakpoints

LEMMA SmallestNumber ==
  ASSUME NEW T, T \subseteq Nat, T # {}
  PROVE  \E x \in T : \A y \in T : x <= y
<1>1. PICK x \in T : \A y \in T : ~ (<<y, x>> \in OpToRel(<, Nat))
  BY NatLessThanWellFounded, WFMin
<1>2. ASSUME NEW y \in T PROVE x <= y
  <2>1. x \in Nat /\ y \in Nat
    OBVIOUS
  <2>2. y < x => <<y, x>> \in OpToRel(<, Nat)
    BY <2>1 DEF OpToRel
  <2>3. ~ (<<y, x>> \in OpToRel(<, Nat))
    BY <1>1
  <2>4. ~ (y < x)
    BY <2>2, <2>3
  <2> QED BY <2>1, <2>4
<1> QED BY <1>2

\* There is always a next key to visit: sort.Strings has an order for them.
LEMMA NextKeyIsKey ==
  ASSUME keys \subseteq R!Keys, keys # {}
  PROVE  NextKey \in keys
<1> DEFINE First(k) == \A j \in keys \ {k} : j = OnFail \/ (k # OnFail /\ k <= j)
<1>1. \E k \in keys : First(k)
  <2>1. CASE keys \ {OnFail} = {}
    BY <2>1
  <2>2. CASE keys \ {OnFail} # {}
    <3>1. keys \ {OnFail} \subseteq Nat
      BY DEF R!Keys
    <3>2. PICK x \in keys \ {OnFail} : \A y \in keys \ {OnFail} : x <= y
      BY <2>2, <3>1, SmallestNumber
    <3> QED BY <3>2
  <2> QED BY <2>1, <2>2
<1> QED BY <1>1 DEF NextKey

Requested == [Requests -> [at : Progress, next : Nat \ {0}, ids : Answers]]

\* How a request that moves on changes the requests.
LEMMA Goes ==
  ASSUME request \in Requested, NEW q \in Requests, NEW to \in Progress, RequestGoes(q, to)
  PROVE  /\ request' \in Requested
         /\ request'[q] = [at |-> to, next |-> request[q].next, ids |-> request[q].ids]
         /\ \A p \in Requests \ {q} : request'[p] = request[p]
<1>1. request[q] \in [at : Progress, next : Nat \ {0}, ids : Answers]
  BY DEF Requested
<1> DEFINE new == [at |-> to, next |-> request[q].next, ids |-> request[q].ids]
<1>2. [request[q] EXCEPT !.at = to] = new
  BY <1>1
<1>3. request' = [request EXCEPT ![q] = new]
  BY <1>2 DEF RequestGoes
<1>4. new \in [at : Progress, next : Nat \ {0}, ids : Answers]
  BY <1>1
<1> HIDE DEF new
<1>5. /\ request' \in Requested /\ request'[q] = new
      /\ \A p \in Requests \ {q} : request'[p] = request[p]
  BY <1>3, <1>4 DEF Requested
<1> QED BY <1>5 DEF new

\* How a breakpoint that is added changes the requests.
LEMMA Adds ==
  ASSUME request \in Requested, NEW q \in Requests, NEW n \in Nat \ {0}, NEW ids \in Answers,
         request' = [request EXCEPT ![q].next = n, ![q].ids = ids]
  PROVE  /\ request' \in Requested
         /\ request'[q] = [at |-> request[q].at, next |-> n, ids |-> ids]
         /\ \A p \in Requests \ {q} : request'[p] = request[p]
<1> DEFINE mid == [request[q] EXCEPT !.next = n]
           new == [mid EXCEPT !.ids = ids]
<1>1. request[q] \in [at : Progress, next : Nat \ {0}, ids : Answers]
  BY DEF Requested
<1>2. mid = [at |-> request[q].at, next |-> n, ids |-> request[q].ids]
  BY <1>1
<1>3. new = [at |-> request[q].at, next |-> n, ids |-> ids]
  <2> HIDE DEF mid
  <2> QED BY <1>2
<1>4. new \in [at : Progress, next : Nat \ {0}, ids : Answers]
  BY <1>1, <1>3
<1>5. request' = [request EXCEPT ![q] = new]
  BY DEF Requested
<1> HIDE DEF new
<1>6. /\ request' \in Requested /\ request'[q] = new
      /\ \A p \in Requests \ {q} : request'[p] = request[p]
  BY <1>4, <1>5 DEF Requested
<1> QED BY <1>3, <1>6

\* A step that leaves the registry and the requests alone.
LEMMA RegistryRests ==
  ASSUME RegistryInv, UNCHANGED <<registryVars, requestVars, client>>
  PROVE  RegistryInv'
BY DEF RegistryInv, registryVars, requestVars, Editing, Registered

LEMMA InitDecision == DecisionInit => DecisionInv
<1> SUFFICES ASSUME DecisionInit PROVE DecisionInv
  OBVIOUS
<1>1. TableInv
  BY InitTable DEF DecisionInit
<1>2. /\ R!NoBreakpoints \in Answers /\ DOMAIN R!NoBreakpoints = {}
      /\ DOMAIN breakpoints = {OnFail} /\ breakpoints[OnFail] = OnFail
  <2>1. R!NoBreakpoints \in [{} -> R!LineBreakpoints]
    BY DEF R!NoBreakpoints
  <2> QED BY <2>1 DEF Answers, DecisionInit, R!RegistryInit, R!NoBreakpoints
<1>3. /\ request \in Requested
      /\ \A q \in Requests : request[q].at = "none" /\ request[q].ids = R!NoBreakpoints
  BY <1>2 DEF DecisionInit, Requested, Progress
<1>4. DecisionTypeOK
  BY <1>2, <1>3 DEF DecisionInit, DecisionTypeOK, R!RegistryInit, R!Keys, Requested
<1>5. RegistryInv
  BY <1>2, <1>3 DEF DecisionInit, RegistryInv, Editing, Registered
<1>6. JudgedInv
  BY <1>3 DEF DecisionInit, JudgedInv, Init, Editing
<1> QED BY <1>1, <1>4, <1>5, <1>6 DEF DecisionInv, CoreInv

-----------------------------------------------------------------------------
(* The steps of the build *)

LEMMA BuildStep ==
  ASSUME CoreInv, process = "up", UNCHANGED client,
         \/ Launch \/ \E c \in Solves : Solve(c)
         \/ \E ev \in R!Events : Reach(ev) \/ GiveUp(ev)
  PROVE  CoreInv'
<1>1. UNCHANGED <<process, registryVars, handlerVars, requestVars>>
  BY DEF Launch, Solve, Reach, GiveUp
<1>2. pending' \subseteq R!Events
  BY DEF CoreInv, DecisionTypeOK, Launch, Solve, Reach, GiveUp, gateVars
<1>3. DecisionTypeOK'
  BY <1>1, <1>2 DEF CoreInv, DecisionTypeOK, registryVars, handlerVars, requestVars
<1>4. RegistryInv'
  BY <1>1, RegistryRests DEF CoreInv
<1>5. client = "stopped" /\ ~launched' =>
        ~launched /\ pending' = {} /\ \A c \in Solves : phase'[c] = "idle"
  <2> SUFFICES ASSUME client = "stopped", ~launched'
               PROVE  ~launched /\ pending' = {} /\ \A c \in Solves : phase'[c] = "idle"
    OBVIOUS
  <2>1. ~launched
    BY DEF Launch, Solve, Reach, GiveUp, gateVars
  <2>2. pending = {} /\ \A c \in Solves : phase[c] = "idle"
    BY <2>1 DEF CoreInv, JudgedInv
  <2>3. \A ev \in R!Events : ~Reach(ev) /\ ~GiveUp(ev)
    BY <2>2 DEF Reach, GiveUp, Wanted
  <2> QED BY <2>1, <2>2, <2>3 DEF Launch, Solve
<1>6. client = "stopped" /\ Editing # {} => ~launched' \/ handler = "stopped"
  BY DEF CoreInv, JudgedInv, Launch, Solve, Reach, GiveUp, gateVars
<1>7. JudgedInv'
  BY <1>1, <1>5, <1>6 DEF CoreInv, JudgedInv, registryVars, handlerVars, requestVars, Editing,
     R!IsTarget, R!OnFailIsTarget, R!LineIsTarget
<1> QED BY <1>3, <1>4, <1>7 DEF CoreInv

-----------------------------------------------------------------------------
(* The steps of the handler *)

LEMMA TakeStep ==
  ASSUME CoreInv, process = "up", UNCHANGED client, NEW ev \in R!Events, Take(ev)
  PROVE  CoreInv'
<1>1. UNCHANGED <<process, vars, registryVars, breakEach, launched, reached, requestVars>>
  BY DEF Take
<1>2. RegistryInv'
  BY <1>1, RegistryRests DEF CoreInv
<1>3. DecisionTypeOK'
  BY <1>1 DEF CoreInv, DecisionTypeOK, Take, registryVars, requestVars
<1>4. ASSUME client = "stopped" PROVE JudgedInv'
  <2>1. launched /\ Editing = {} /\ Editing' = {}
    BY <1>1, <1>4 DEF CoreInv, JudgedInv, Take, Editing, requestVars
  <2>2. handler' = "judging" =>
          keys' = DOMAIN breakpoints' /\ hits' = {}
    BY <1>1 DEF Take, registryVars
  <2> QED BY <1>1, <1>4, <2>1, <2>2 DEF CoreInv, JudgedInv
<1>5. JudgedInv'
  BY <1>4 DEF JudgedInv
<1> QED BY <1>2, <1>3, <1>5 DEF CoreInv

LEMMA VisitStep ==
  ASSUME CoreInv, process = "up", UNCHANGED client, Visit
  PROVE  /\ CoreInv'
         /\ client = "stopped" => process' = "up"
<1>1. NextKey \in keys
  BY NextKeyIsKey DEF CoreInv, DecisionTypeOK, Visit
<1>2. UNCHANGED <<vars, registryVars, handler, judged, breakEach, gateVars, requestVars>>
  BY DEF Visit, Panic, handlerVars
<1>3. RegistryInv'
  BY <1>2, RegistryRests DEF CoreInv
<1>4. keys' \subseteq keys
  BY DEF Visit, Panic, handlerVars
<1>5. DecisionTypeOK'
  BY <1>2, <1>4 DEF CoreInv, DecisionTypeOK, registryVars, requestVars, gateVars
<1>6. ASSUME client = "stopped" PROVE process' = "up" /\ JudgedInv'
  <2>1. handler = "judging" /\ keys \subseteq DOMAIN breakpoints /\ launched
        /\ Editing = {}
        /\ hits = {k \in DOMAIN breakpoints \ keys : R!IsTarget(breakpoints[k], judged)}
    BY <1>6 DEF CoreInv, JudgedInv, Visit
  <2>2. /\ hits' = IF R!IsTarget(breakpoints[NextKey], judged) THEN hits \cup {NextKey} ELSE hits
        /\ keys' = keys \ {NextKey} /\ process' = process
    BY <1>1, <2>1 DEF Visit
  <2> DEFINE Judged(k) == R!IsTarget(breakpoints[k], judged)
  <2>3. hits' = {k \in DOMAIN breakpoints \ keys' : Judged(k)}
    <3> HIDE DEF Judged
    <3> QED BY <1>1, <2>1, <2>2 DEF Judged
  <2>4. hits' = {k \in DOMAIN breakpoints' \ keys' : R!IsTarget(breakpoints[k], judged)'}
    BY <1>2, <2>3 DEF registryVars, R!IsTarget, R!OnFailIsTarget, R!LineIsTarget
  <2>5. Editing' = {} /\ keys' \subseteq DOMAIN breakpoints' /\ launched'
    BY <1>2, <1>4, <2>1 DEF Editing, requestVars, registryVars, gateVars
  <2> QED BY <1>6, <2>2, <2>4, <2>5 DEF JudgedInv
<1>7. JudgedInv'
  BY <1>6 DEF JudgedInv
<1> QED BY <1>3, <1>5, <1>6, <1>7 DEF CoreInv

LEMMA EndOfStop ==
  ASSUME CoreInv, process = "up", UNCHANGED client,
         Decide \/ \E next \in BOOLEAN : Resume(next)
  PROVE  CoreInv'
<1>1. UNCHANGED <<process, vars, registryVars, keys, gateVars, requestVars>>
      /\ handler' \in {"stopped", "idle"}
  BY DEF Decide, Resume
<1>2. RegistryInv'
  BY <1>1, RegistryRests DEF CoreInv
<1>3. DecisionTypeOK'
  BY <1>1 DEF CoreInv, DecisionTypeOK, registryVars, requestVars, gateVars
<1>4. ASSUME client = "stopped" PROVE launched /\ Editing = {}
  BY <1>4 DEF CoreInv, JudgedInv, Decide, Resume
<1>5. JudgedInv'
  BY <1>1, <1>4 DEF CoreInv, JudgedInv, Editing, requestVars, gateVars
<1> QED BY <1>2, <1>3, <1>5 DEF CoreInv

-----------------------------------------------------------------------------
(* The steps of setBreakpoints *)

\* An edit while nothing is judged.
LEMMA EditRests ==
  ASSUME JudgedInv, UNCHANGED <<client, process, vars, handlerVars, gateVars>>,
         client = "stopped" => ~launched \/ handler = "stopped"
  PROVE  JudgedInv'
BY DEF JudgedInv, vars, handlerVars, gateVars

LEMMA AtWork ==
  ASSUME JudgedInv, NEW q \in Editing
  PROVE  client = "stopped" => ~launched \/ handler = "stopped"
BY DEF JudgedInv

\* The only request at work moves on.
LEMMA Alone ==
  ASSUME CoreInv, client # "eager", NEW q \in Editing, request' \in Requested,
         \A p \in Requests \ {q} : request'[p] = request[p]
  PROVE  /\ \A p \in Requests \ {q} : request[p].at \in {"none", "answered"}
         /\ Editing' \subseteq {q}
         /\ Editing' = {} <=> request'[q].at \in {"none", "answered"}
<1>1. \A p \in Editing : p = q
  BY DEF CoreInv, RegistryInv
<1>2. \A p \in Requests \ {q} : p \notin Editing
  BY <1>1
<1> QED BY <1>2 DEF Editing

LEMMA SendStep ==
  ASSUME CoreInv, process = "up", UNCHANGED client, NEW q \in Requests, Send(q)
  PROVE  CoreInv'
<1>1. UNCHANGED <<process, vars, registryVars, handlerVars, gateVars, answer>>
  BY DEF Send
<1>2. request \in Requested
  BY DEF CoreInv, DecisionTypeOK, Requested
<1>3. /\ request' \in Requested
      /\ request'[q] = [at |-> "clear", next |-> request[q].next, ids |-> request[q].ids]
      /\ \A p \in Requests \ {q} : request'[p] = request[p]
  BY <1>2, Goes DEF Send, Progress
<1>4. DecisionTypeOK'
  BY <1>1, <1>3 DEF CoreInv, DecisionTypeOK, Requested, registryVars, handlerVars, gateVars
<1>5. JudgedInv'
  BY <1>1, EditRests DEF CoreInv, Send
<1>6. ASSUME client # "eager" PROVE RegistryInv'
  <2>1. Editing = {}
    BY <1>6 DEF Send
  <2>2. \A p \in Requests : request[p].at \in {"none", "answered"}
    BY <2>1 DEF Editing
  <2>3. Editing' = {q}
    BY <1>3, <2>2 DEF Editing
  <2>4. request[q].at = "none" /\ DOMAIN request[q].ids = {}
    BY <1>6 DEF Send, CoreInv, RegistryInv
  <2> QED BY <1>1, <1>3, <1>6, <2>2, <2>3, <2>4 DEF CoreInv, RegistryInv
<1>7. RegistryInv'
  BY <1>6 DEF RegistryInv
<1> QED BY <1>4, <1>5, <1>7 DEF CoreInv

LEMMA ClearStep ==
  ASSUME CoreInv, process = "up", UNCHANGED client, NEW q \in Requests, SetClear(q)
  PROVE  CoreInv'
<1>1. UNCHANGED <<process, vars, handlerVars, gateVars, answer>>
  BY DEF SetClear
<1>2. request \in Requested /\ q \in Editing
  BY DEF CoreInv, DecisionTypeOK, Requested, SetClear, Editing
<1>3. /\ request' \in Requested
      /\ request'[q] = [at |-> "onFail", next |-> request[q].next, ids |-> request[q].ids]
      /\ \A p \in Requests \ {q} : request'[p] = request[p]
  BY <1>2, Goes DEF SetClear, Progress
<1>4. DOMAIN breakpoints' = {} /\ breakpointIndex' = 0
  BY DEF SetClear, R!ClearAll, R!NoBreakpoints
<1>5. DecisionTypeOK'
  BY <1>1, <1>3, <1>4 DEF CoreInv, DecisionTypeOK, Requested, handlerVars, gateVars
<1>6. JudgedInv'
  BY <1>1, <1>2, EditRests, AtWork DEF CoreInv
<1>7. ASSUME client # "eager" PROVE RegistryInv'
  <2>1. /\ \A p \in Requests \ {q} : request[p].at \in {"none", "answered"}
        /\ Editing' \subseteq {q} /\ Editing' # {}
    BY <1>2, <1>3, <1>7, Alone
  <2>2. DOMAIN request[q].ids = {}
    BY <1>7 DEF SetClear, CoreInv, RegistryInv
  <2>3. \A p \in Requests \ {q} : request[p].at = "none" => DOMAIN request[p].ids = {}
    BY <1>7 DEF CoreInv, RegistryInv
  <2> QED BY <1>3, <1>4, <2>1, <2>2, <2>3 DEF RegistryInv
<1>8. RegistryInv'
  BY <1>7 DEF RegistryInv
<1> QED BY <1>5, <1>6, <1>8 DEF CoreInv

LEMMA OnFailStep ==
  ASSUME CoreInv, process = "up", UNCHANGED client, NEW q \in Requests, SetOnFail(q)
  PROVE  CoreInv'
<1>1. UNCHANGED <<process, vars, handlerVars, gateVars, answer>>
  BY DEF SetOnFail
<1>2. request \in Requested /\ q \in Editing
  BY DEF CoreInv, DecisionTypeOK, Requested, SetOnFail, Editing
<1>3. /\ request' \in Requested
      /\ request'[q] = [at |-> "adding", next |-> request[q].next, ids |-> request[q].ids]
      /\ \A p \in Requests \ {q} : request'[p] = request[p]
  BY <1>2, Goes DEF SetOnFail, Progress
<1>4. /\ DOMAIN breakpoints' \subseteq DOMAIN breakpoints \cup {OnFail}
      /\ breakpointIndex' = breakpointIndex
      /\ DOMAIN breakpoints = {} =>
           DOMAIN breakpoints' = {OnFail} /\ breakpoints'[OnFail] = OnFail
  BY DEF SetOnFail, R!AddNamed, R!Put, R!With
<1>5. DecisionTypeOK'
  BY <1>1, <1>3, <1>4 DEF CoreInv, DecisionTypeOK, Requested, handlerVars, gateVars, R!Keys
<1>6. JudgedInv'
  BY <1>1, <1>2, EditRests, AtWork DEF CoreInv
<1>7. ASSUME client # "eager" PROVE RegistryInv'
  <2>1. /\ \A p \in Requests \ {q} : request[p].at \in {"none", "answered"}
        /\ Editing' \subseteq {q} /\ Editing' # {}
    BY <1>2, <1>3, <1>7, Alone
  <2>2. DOMAIN request[q].ids = {} /\ DOMAIN breakpoints = {}
    BY <1>7 DEF SetOnFail, CoreInv, RegistryInv
  <2>3. \A p \in Requests \ {q} : request[p].at = "none" => DOMAIN request[p].ids = {}
    BY <1>7 DEF CoreInv, RegistryInv
  <2> QED BY <1>3, <1>4, <2>1, <2>2, <2>3 DEF RegistryInv, Registered
<1>8. RegistryInv'
  BY <1>7 DEF RegistryInv
<1> QED BY <1>5, <1>6, <1>8 DEF CoreInv

LEMMA AddStep ==
  ASSUME CoreInv, process = "up", UNCHANGED client, NEW q \in Requests, SetAdd(q)
  PROVE  CoreInv'
<1> DEFINE i == request[q].next
           bp == [file |-> Arguments[q].file, line |-> Arguments[q].lines[i]]
           old == request[q].ids
           ids == IF breakpointIndex \in DOMAIN breakpoints THEN old
                  ELSE [k \in DOMAIN old \cup {breakpointIndex} |->
                          IF k = breakpointIndex THEN bp ELSE old[k]]
           new == [at |-> "adding", next |-> i + 1, ids |-> ids]
<1>1. UNCHANGED <<process, vars, handlerVars, gateVars, answer>>
  BY DEF SetAdd
<1>2. request \in Requested /\ q \in Editing
  BY DEF CoreInv, DecisionTypeOK, Requested, SetAdd, Editing
<1>3. request[q].at = "adding" /\ i \in Nat \ {0} /\ old \in Answers /\ i <= Len(Arguments[q].lines)
  BY <1>2 DEF SetAdd, Requested
<1>4. bp \in R!LineBreakpoints
  <2>1. Arguments[q] \in [file : Files, lines : Seq(Lines)]
    BY DecisionAssumption
  <2>2. i \in 1 .. Len(Arguments[q].lines)
    BY <1>3, <2>1
  <2>3. Arguments[q].lines[i] \in Lines
    BY <2>1, <2>2
  <2> QED BY <2>1, <2>3 DEF R!LineBreakpoints
<1>5. breakpointIndex \in Nat /\ DOMAIN breakpoints \subseteq R!Keys
  BY DEF CoreInv, DecisionTypeOK
<1>6. ids \in Answers
  <2>1. PICK D \in SUBSET Nat : old \in [D -> R!LineBreakpoints]
    BY <1>3 DEF Answers
  <2>2. DOMAIN old = D
    BY <2>1
  <2> DEFINE more == [k \in D \cup {breakpointIndex} |-> IF k = breakpointIndex THEN bp ELSE old[k]]
  <2>3. more \in [D \cup {breakpointIndex} -> R!LineBreakpoints]
    <3> HIDE DEF bp, old
    <3> QED BY <1>4, <2>1
  <2>4. D \cup {breakpointIndex} \in SUBSET Nat
    BY <1>5
  <2>5. more \in Answers
    BY <2>3, <2>4 DEF Answers
  <2> QED BY <1>3, <2>2, <2>5
<1>7. request' = [request EXCEPT ![q].next = i + 1, ![q].ids = ids] /\ i + 1 \in Nat \ {0}
  BY <1>3 DEF SetAdd
<1>8. new = [at |-> request[q].at, next |-> i + 1, ids |-> ids]
  BY <1>3
<1>9. /\ request' \in Requested /\ request'[q] = new
      /\ \A p \in Requests \ {q} : request'[p] = request[p]
  <2> HIDE DEF i, ids, new
  <2> QED BY <1>2, <1>6, <1>7, <1>8, Adds
<1>10. /\ breakpointIndex' = breakpointIndex + 1
       /\ breakpoints' = IF breakpointIndex \in DOMAIN breakpoints THEN breakpoints
                         ELSE [k \in DOMAIN breakpoints \cup {breakpointIndex} |->
                                 IF k = breakpointIndex THEN bp ELSE breakpoints[k]]
  BY DEF SetAdd, R!AddUnnamed, R!Put, R!With
<1>11. DecisionTypeOK'
  <2>1. DOMAIN breakpoints' \subseteq R!Keys /\ breakpointIndex' \in Nat
    BY <1>5, <1>10 DEF R!Keys
  <2> QED BY <1>1, <1>9, <2>1 DEF CoreInv, DecisionTypeOK, Requested, handlerVars, gateVars
<1>12. JudgedInv'
  BY <1>1, <1>2, EditRests, AtWork DEF CoreInv
<1>13. ASSUME client # "eager" PROVE RegistryInv'
  <2>1. /\ \A p \in Requests \ {q} : request[p].at \in {"none", "answered"}
        /\ Editing' \subseteq {q} /\ Editing' # {}
    BY <1>2, <1>9, <1>13, Alone
  <2>2. /\ DOMAIN breakpoints = DOMAIN old \cup {OnFail} /\ breakpoints[OnFail] = OnFail
        /\ \A k \in DOMAIN old : breakpoints[k] = old[k] /\ k < breakpointIndex
    BY <1>3, <1>13 DEF CoreInv, RegistryInv, Registered
  <2>3. DOMAIN old \subseteq Nat
    BY <1>3 DEF Answers
  <2>4. breakpointIndex \notin DOMAIN breakpoints
    BY <1>5, <2>2, <2>3, KeyAssumptions
  <2>5. /\ breakpoints' = [k \in DOMAIN breakpoints \cup {breakpointIndex} |->
                             IF k = breakpointIndex THEN bp ELSE breakpoints[k]]
        /\ ids = [k \in DOMAIN old \cup {breakpointIndex} |->
                    IF k = breakpointIndex THEN bp ELSE old[k]]
    BY <1>10, <2>4
  <2>6. /\ DOMAIN breakpoints' = DOMAIN ids \cup {OnFail} /\ breakpoints'[OnFail] = OnFail
        /\ \A k \in DOMAIN ids : breakpoints'[k] = ids[k] /\ k < breakpointIndex'
    <3> HIDE DEF bp, old, ids
    <3> QED BY <1>5, <1>10, <2>2, <2>3, <2>5, KeyAssumptions
  <2>7. request'[q].at = "adding" /\ request'[q].ids = ids
    <3> HIDE DEF i, ids
    <3> QED BY <1>9 DEF new
  <2>8. \A p \in Requests \ {q} : request[p].at = "none" => DOMAIN request[p].ids = {}
    BY <1>13 DEF CoreInv, RegistryInv
  <2> HIDE DEF i, bp, old, ids, new
  <2> QED BY <1>9, <2>1, <2>6, <2>7, <2>8 DEF RegistryInv, Registered
<1>14. RegistryInv'
  BY <1>13 DEF RegistryInv
<1> QED BY <1>11, <1>12, <1>14 DEF CoreInv

LEMMA AnswerStep ==
  ASSUME CoreInv, process = "up", UNCHANGED client, NEW q \in Requests, SetAnswer(q)
  PROVE  CoreInv'
<1>1. UNCHANGED <<process, vars, registryVars, handlerVars, gateVars>>
  BY DEF SetAnswer
<1>2. request \in Requested /\ q \in Editing
  BY DEF CoreInv, DecisionTypeOK, Requested, SetAnswer, Editing
<1>3. /\ request' \in Requested
      /\ request'[q] = [at |-> "answered", next |-> request[q].next, ids |-> request[q].ids]
      /\ \A p \in Requests \ {q} : request'[p] = request[p]
  BY <1>2, Goes DEF SetAnswer, Progress
<1>4. answer' = request[q].ids /\ answer' \in Answers
  BY <1>2 DEF SetAnswer, Requested
<1>5. DecisionTypeOK'
  BY <1>1, <1>3, <1>4
     DEF CoreInv, DecisionTypeOK, Requested, handlerVars, gateVars, registryVars
<1>6. JudgedInv'
  BY <1>1, <1>2, EditRests, AtWork DEF CoreInv
<1>7. ASSUME client # "eager" PROVE RegistryInv'
  <2>1. \A p \in Requests \ {q} : request[p].at \in {"none", "answered"}
    BY <1>2, <1>3, <1>7, Alone
  <2>2. Editing' = {}
    BY <1>3, <2>1 DEF Editing
  <2>3. Registered(request[q].ids)
    BY <1>7 DEF SetAnswer, CoreInv, RegistryInv
  <2>4. Registered(answer)'
    BY <1>1, <1>4, <2>3 DEF Registered, registryVars
  <2>5. \A p \in Requests \ {q} : request[p].at = "none" => DOMAIN request[p].ids = {}
    BY <1>7 DEF CoreInv, RegistryInv
  <2> QED BY <1>3, <2>1, <2>2, <2>4, <2>5 DEF RegistryInv
<1>8. RegistryInv'
  BY <1>7 DEF RegistryInv
<1> QED BY <1>5, <1>6, <1>8 DEF CoreInv

\* Only a client that edits while steps are judged, or twice at a time, can end
\* the process.
LEMMA AbortStep ==
  ASSUME CoreInv, process = "up", UNCHANGED client, RuntimeAborts
  PROVE  CoreInv' /\ client # "stopped"
<1>1. UNCHANGED <<vars, registryVars, handlerVars, gateVars, requestVars>>
  BY DEF RuntimeAborts, Panic
<1>2. client # "stopped"
  <2> SUFFICES ASSUME client = "stopped" PROVE FALSE
    OBVIOUS
  <2>1. Editing # {} /\ (Cardinality(Editing) > 1 \/ handler = "judging")
    BY DEF RuntimeAborts
  <2>2. PICK q \in Editing : TRUE
    BY <2>1
  <2>3. Editing = {q}
    BY <2>2 DEF CoreInv, RegistryInv
  <2>4. Cardinality(Editing) = 1
    BY <2>3, FS_Singleton
  <2>5. handler # "judging"
    BY <2>1 DEF CoreInv, JudgedInv
  <2> QED BY <2>1, <2>4, <2>5
<1>3. DecisionTypeOK'
  BY <1>1 DEF CoreInv, DecisionTypeOK, registryVars, requestVars, gateVars, handlerVars
<1>4. RegistryInv'
  BY <1>1, RegistryRests DEF CoreInv
<1>5. JudgedInv'
  BY <1>2 DEF JudgedInv
<1> QED BY <1>2, <1>3, <1>4, <1>5 DEF CoreInv

-----------------------------------------------------------------------------
(* The theorems about the decision *)

\* The table is run by the calls of Solve alone.
LEMMA DecisionIsTable == DecisionNext => [Next]_vars
BY DEF DecisionNext, Launch, Solve, Reach, GiveUp, Take, Visit, Decide, Resume, SetStep, Send,
   SetClear, SetOnFail, SetAdd, SetAnswer, RuntimeAborts, Panic, Next, vars

LEMMA CoreStep == CoreInv /\ DecisionNext => CoreInv' /\ (client = "stopped" => process' = "up")
<1> SUFFICES ASSUME CoreInv, DecisionNext
             PROVE  CoreInv' /\ (client = "stopped" => process' = "up")
  OBVIOUS
<1>1. process = "up" /\ UNCHANGED client
  BY DEF DecisionNext
<1>2. CASE \/ Launch \/ \E c \in Solves : Solve(c)
           \/ \E ev \in R!Events : Reach(ev) \/ GiveUp(ev)
  <2>1. CoreInv'
    BY <1>1, <1>2, BuildStep
  <2> QED BY <1>1, <2>1 DEF CoreInv, JudgedInv
<1>3. CASE \E ev \in R!Events : Take(ev)
  <2>1. CoreInv'
    BY <1>1, <1>3, TakeStep
  <2> QED BY <1>1, <2>1 DEF CoreInv, JudgedInv
<1>4. CASE Visit
  BY <1>1, <1>4, VisitStep
<1>5. CASE Decide \/ \E next \in BOOLEAN : Resume(next)
  <2>1. CoreInv'
    BY <1>1, <1>5, EndOfStop
  <2> QED BY <1>1, <2>1 DEF CoreInv, JudgedInv
<1>6. CASE \E q \in Requests : SetStep(q)
  <2>1. PICK q \in Requests : SetStep(q)
    BY <1>6
  <2>2. CoreInv'
    BY <1>1, <2>1, SendStep, ClearStep, OnFailStep, AddStep, AnswerStep DEF SetStep
  <2> QED BY <1>1, <2>2 DEF CoreInv, JudgedInv
<1>7. CASE RuntimeAborts
  BY <1>1, <1>7, AbortStep
<1> QED BY <1>2, <1>3, <1>4, <1>5, <1>6, <1>7 DEF DecisionNext

LEMMA DecisionStutters == CoreInv /\ UNCHANGED decisionVars => CoreInv'
<1> SUFFICES ASSUME CoreInv, UNCHANGED decisionVars PROVE CoreInv'
  OBVIOUS
<1>1. UNCHANGED <<client, process, vars, registryVars, handlerVars, gateVars, requestVars>>
  BY DEF decisionVars
<1>2. RegistryInv'
  BY <1>1, RegistryRests DEF CoreInv
<1>3. DecisionTypeOK'
  BY <1>1 DEF CoreInv, DecisionTypeOK, registryVars, handlerVars, gateVars, requestVars
<1>4. JudgedInv'
  BY <1>1 DEF CoreInv, JudgedInv, registryVars, handlerVars, gateVars, requestVars, vars,
     Editing, R!IsTarget, R!OnFailIsTarget, R!LineIsTarget
<1> QED BY <1>2, <1>3, <1>4 DEF CoreInv

LEMMA DecisionInductive == DecisionSpec => []DecisionInv
<1>1. DecisionInv /\ [DecisionNext]_decisionVars => TableInv'
  BY TableStep, DecisionIsTable DEF DecisionInv, decisionVars
<1>2. DecisionInv /\ [DecisionNext]_decisionVars => CoreInv'
  BY CoreStep, DecisionStutters DEF DecisionInv
<1>3. DecisionInv /\ [DecisionNext]_decisionVars => DecisionInv'
  BY <1>1, <1>2 DEF DecisionInv
<1> QED BY InitDecision, <1>3, PTL DEF DecisionSpec

\* The session runs the table as LocationSources specifies it: every step of
\* the decision is a call of Solve that begins or returns, or leaves the table.
THEOREM DecisionRunsTable == DecisionSpec => Spec
<1>1. DecisionInit => Init
  BY DEF DecisionInit
<1>2. [DecisionNext]_decisionVars => [Next]_vars
  BY DecisionIsTable DEF decisionVars, vars
<1> QED BY <1>1, <1>2, PTL DEF DecisionSpec, Spec

\* A vertex is located exactly while a definition that maps it is being
\* solved, also when steps are judged and breakpoints are edited meanwhile
\* (controller.go, getLocation and the two Solve wrappers).
THEOREM LocatedWhenJudged == DecisionSpec => []LocatedWhileSolving
BY DecisionRunsTable, LocatedInFlight, PTL

\* A client that sends one setBreakpoints at a time has been told what the
\* registry holds (dap.go, onSetBreakpointsRequest; breakpoint.go, Add and
\* ClearAll), however its edits and the judging of steps interleave.
THEOREM AnswersAreRegistry == DecisionSpec => []AnswerIsRegistry
<1>1. DecisionInv => AnswerIsRegistry
  BY DEF DecisionInv, CoreInv, RegistryInv, Registered, AnswerIsRegistry
<1> QED BY <1>1, DecisionInductive, PTL

\* What a step that is judged and not located leaves out: nobody solves it.
LEMMA OnlyUnwantedPass ==
  ASSUME LocatedWhileSolving, CoreInv, DecisionNext, NEW ev \in pending \ pending'
  PROVE  judged' = ev \/ ~Wanted(ev.vertex)
<1>1. ev \in R!Events /\ ev.vertex \in Vertices
  BY DEF CoreInv, DecisionTypeOK, R!Events
<1>2. Located(ev.vertex) <=> Wanted(ev.vertex)
  BY <1>1 DEF LocatedWhileSolving, Wanted
<1>3. \/ \E e \in R!Events : GiveUp(e) \/ Take(e)
      \/ pending \subseteq pending'
  BY DEF DecisionNext, Launch, Solve, Reach, Visit, Decide, Resume, SetStep, Send,
     SetClear, SetOnFail, SetAdd, SetAnswer, RuntimeAborts, Panic, gateVars
<1>4. PICK e \in R!Events : GiveUp(e) \/ Take(e)
  BY <1>3
<1>5. ev = e
  BY <1>4 DEF GiveUp, Take
<1> QED BY <1>2, <1>4, <1>5 DEF GiveUp, Take

LEMMA DecidesAsAnswered ==
  ASSUME CoreInv, DecisionNext, client = "stopped",
         handler = "judging", handler' # "judging"
  PROVE  LET named == {k \in DOMAIN answer : R!LineIsTarget(answer[k], judged)}
         IN  /\ hits \ {OnFail} = named
             /\ handler' = "stopped" <=> named # {} \/ judged.failed \/ breakEach
<1> DEFINE named == {k \in DOMAIN answer : R!LineIsTarget(answer[k], judged)}
<1>1. Decide
  BY DEF DecisionNext, Launch, Solve, Reach, GiveUp, Take, Visit, Resume, SetStep, Send,
     SetClear, SetOnFail, SetAdd, SetAnswer, RuntimeAborts, Panic, handlerVars
<1>2. Editing = {}
  BY DEF CoreInv, JudgedInv
<1>3. keys = {} /\ hits = {k \in DOMAIN breakpoints : R!IsTarget(breakpoints[k], judged)}
  BY <1>1 DEF CoreInv, JudgedInv, Decide
<1>4. Registered(answer)
  BY <1>2 DEF CoreInv, RegistryInv
<1>5. /\ DOMAIN answer \subseteq Nat
      /\ \A k \in DOMAIN answer : answer[k] \in R!LineBreakpoints
  <2>1. PICK D \in SUBSET Nat : answer \in [D -> R!LineBreakpoints]
    BY DEF CoreInv, DecisionTypeOK, Answers
  <2> QED BY <2>1
<1>6. \A k \in DOMAIN answer :
        /\ k # OnFail /\ answer[k] # OnFail
        /\ R!IsTarget(breakpoints[k], judged) <=> R!LineIsTarget(answer[k], judged)
  BY <1>4, <1>5, KeyAssumptions DEF Registered, R!IsTarget
<1>7. R!IsTarget(breakpoints[OnFail], judged) <=> judged.failed
  BY <1>4 DEF Registered, R!IsTarget, R!OnFailIsTarget
<1>8. hits \ {OnFail} = named
  BY <1>3, <1>4, <1>6 DEF Registered
<1>9. OnFail \in hits <=> judged.failed
  BY <1>3, <1>4, <1>7 DEF Registered
<1>10. handler' = "stopped" <=> hits # {} \/ breakEach
  BY <1>1 DEF Decide
<1> HIDE DEF named
<1>11. handler' = "stopped" <=> named # {} \/ judged.failed \/ breakEach
  BY <1>8, <1>9, <1>10
<1> QED BY <1>8, <1>11 DEF named

\* A client that edits at stops only is stopped exactly where its last answer
\* says, its stop names those breakpoints, the iteration never meets one that
\* is gone, and no step passes unjudged while it is wanted (breakpoint.go,
\* handler.go and controller.go, with dap.go's clear and refill in between).
THEOREM StopsAreAnswered == DecisionSpec => StopsWhereAnswered
<1> DEFINE Answered ==
      client = "stopped" =>
        /\ process' = "up"
        /\ handler = "judging" /\ handler' # "judging" =>
             LET named == {k \in DOMAIN answer : R!LineIsTarget(answer[k], judged)}
             IN  /\ hits \ {OnFail} = named
                 /\ handler' = "stopped" <=> named # {} \/ judged.failed \/ breakEach
        /\ \A ev \in pending \ pending' : judged' = ev \/ ~Wanted(ev.vertex)
<1>1. LocatedWhileSolving /\ DecisionInv /\ DecisionNext => Answered
  BY OnlyUnwantedPass, DecidesAsAnswered, CoreStep DEF DecisionInv
<1>2. LocatedWhileSolving /\ DecisionInv /\ [DecisionNext]_decisionVars => [Answered]_decisionVars
  BY <1>1
<1>3. DecisionSpec => [][Answered]_decisionVars
  BY <1>2, LocatedWhenJudged, DecisionInductive, PTL DEF DecisionSpec
<1> QED BY <1>3, PTL DEF StopsWhereAnswered
=============================================================================
