-------------------------- MODULE DebugShellProofs --------------------------
(***************************************************************************)
(* Theorems about DebugShell, for every Dockerfile, every set of lines and *)
(* every configuration of the handler; and about Listing, for files of any *)
(* length: what a listing prints is the window of its ranges and flags.    *)
(* PrintLines is a recursive function, so the second part first shows, by  *)
(* smallest counterexamples, that there is such a function and what its pass *)
(* over the lines keeps true.                                              *)
(***************************************************************************)
EXTENDS Listing, SequenceTheorems, WellFoundedInduction, TLAPS

\* The flags and the target are those of the user's last request.
FlagsServe ==
  /\ (asked = "none") <=> (mode \in {"prompt", "left"})
  /\ asked = "start" => ~breakEachVertex /\ (StopOnEntry => ~entried)
  /\ asked # "start" => entried
  /\ asked = "next" => breakEachVertex
  /\ asked \in {"continue", "target"} => ~breakEachVertex
  /\ targetBreakpoint = askedKey
  /\ (askedKey # None) <=> (asked = "target")

IInv == TypeOK /\ IndexAboveKeys /\ FlagsServe

\* Adding under an absent key extends the registry (breakpoint.go:54).
LEMMA WithDomain ==
  ASSUME NEW key, NEW bp
  PROVE  /\ DOMAIN With(key, bp) = DOMAIN breakpoints \cup {key}
         /\ With(key, bp)[key] = bp
         /\ \A k \in DOMAIN breakpoints \ {key} : With(key, bp)[k] = breakpoints[k]
BY DEF With

\* Putting a breakpoint keeps the registry well formed (breakpoint.go:42-56).
LEMMA PutTyped ==
  ASSUME RegistryTypeOK, NEW key \in Keys, NEW bp \in LineBreakpoints \cup {OnFail},
         Put(key, bp)
  PROVE  /\ breakpoints' = [k \in DOMAIN breakpoints' |-> breakpoints'[k]]
         /\ DOMAIN breakpoints' = DOMAIN breakpoints \cup {key}
         /\ \A k \in DOMAIN breakpoints' :
              breakpoints'[k] \in LineBreakpoints \cup {OnFail}
<1>1. CASE key \in DOMAIN breakpoints
  BY <1>1 DEF Put, RegistryTypeOK
<1>2. CASE key \notin DOMAIN breakpoints
  <2>1. breakpoints' = With(key, bp)
    BY <1>2 DEF Put
  <2>2. With(key, bp) = [k \in DOMAIN With(key, bp) |-> With(key, bp)[k]]
    <3> DEFINE D == DOMAIN breakpoints \cup {key}
               value(k) == IF k = key THEN bp ELSE breakpoints[k]
    <3>1. With(key, bp) = [k \in D |-> value(k)]
      BY DEF With
    <3>2. DOMAIN With(key, bp) = D /\ \A k \in D : With(key, bp)[k] = value(k)
      BY <3>1
    <3> HIDE DEF value
    <3>3. [k \in D |-> With(key, bp)[k]] = [k \in D |-> value(k)]
      BY <3>2, Zenon
    <3>4. QED
      BY <3>1, <3>2, <3>3, Zenon
  <2>3. \A k \in DOMAIN With(key, bp) :
          With(key, bp)[k] \in LineBreakpoints \cup {OnFail}
    <3> HIDE DEF With
    <3> SUFFICES ASSUME NEW k \in DOMAIN With(key, bp)
                 PROVE  With(key, bp)[k] \in LineBreakpoints \cup {OnFail}
      OBVIOUS
    <3>1. DOMAIN With(key, bp) = DOMAIN breakpoints \cup {key}
      BY WithDomain
    <3>2. CASE k = key
      BY <3>2, WithDomain
    <3>3. CASE k # key
      <4>1. k \in DOMAIN breakpoints \ {key}
        BY <3>1, <3>3
      <4>2. With(key, bp)[k] = breakpoints[k]
        BY <4>1 DEF With
      <4>3. QED
        BY <4>1, <4>2 DEF RegistryTypeOK
    <3>4. QED
      BY <3>2, <3>3
  <2>4. QED
    BY <2>1, <2>2, <2>3, WithDomain
<1>3. QED
  BY <1>1, <1>2

\* Numbers are handed out below the index (breakpoint.go:46-50).
LEMMA AddUnnamedStep ==
  ASSUME RegistryTypeOK, IndexAboveKeys, NEW bp \in LineBreakpoints, AddUnnamed(bp)
  PROVE  RegistryTypeOK' /\ IndexAboveKeys'
<1>1. /\ Put(breakpointIndex, bp)
      /\ breakpointIndex \in Nat
      /\ breakpointIndex' = breakpointIndex + 1
      /\ breakpointIndex \in Keys
  BY DEF AddUnnamed, RegistryTypeOK, Keys
<1>2. RegistryTypeOK'
  <2>1. breakpointIndex' \in Nat
    BY <1>1
  <2>2. bp \in LineBreakpoints \cup {OnFail}
    OBVIOUS
  <2>3. DOMAIN breakpoints' \subseteq Keys
    BY <1>1, <2>2, PutTyped DEF RegistryTypeOK
  <2>4. /\ breakpoints' = [k \in DOMAIN breakpoints' |-> breakpoints'[k]]
        /\ \A k \in DOMAIN breakpoints' :
             breakpoints'[k] \in LineBreakpoints \cup {OnFail}
    BY <1>1, <2>2, PutTyped
  <2>5. QED
    BY <2>1, <2>3, <2>4 DEF RegistryTypeOK
<1>3. ASSUME NEW k \in DOMAIN breakpoints' \ {OnFail}
      PROVE  k < breakpointIndex'
  <2>1. k \in DOMAIN breakpoints \cup {breakpointIndex}
    BY <1>1, PutTyped
  <2>2. k \in Nat
    BY <2>1, <1>1, <1>3 DEF RegistryTypeOK, Keys
  <2>3. CASE k = breakpointIndex
    BY <2>3, <1>1
  <2>4. CASE k \in DOMAIN breakpoints
    BY <2>4, <2>2, <1>1, <1>3 DEF IndexAboveKeys
  <2>5. QED
    BY <2>1, <2>3, <2>4
<1>4. QED
  BY <1>2, <1>3 DEF IndexAboveKeys

\* Adding on-fail leaves the numbers alone (break.go:33-35).
LEMMA AddOnFailStep ==
  ASSUME RegistryTypeOK, IndexAboveKeys, AddNamed(OnFail, OnFail)
  PROVE  RegistryTypeOK' /\ IndexAboveKeys'
<1>1. Put(OnFail, OnFail) /\ breakpointIndex' = breakpointIndex /\ OnFail \in Keys
  BY DEF AddNamed, Keys
<1>2. RegistryTypeOK'
  BY <1>1, PutTyped DEF RegistryTypeOK
<1>3. DOMAIN breakpoints' = DOMAIN breakpoints \cup {OnFail}
  BY <1>1, PutTyped
<1>4. QED
  BY <1>1, <1>2, <1>3 DEF IndexAboveKeys

\* Removing breakpoints frees no number below the index (breakpoint.go:63-70).
LEMMA ClearStep ==
  ASSUME RegistryTypeOK, IndexAboveKeys,
         ClearAll \/ \E key \in DOMAIN breakpoints : Clear(key)
  PROVE  RegistryTypeOK' /\ IndexAboveKeys'
<1>1. CASE ClearAll
  BY <1>1 DEF ClearAll, NoBreakpoints, RegistryTypeOK, IndexAboveKeys
<1>2. ASSUME NEW key \in DOMAIN breakpoints, Clear(key)
      PROVE  RegistryTypeOK' /\ IndexAboveKeys'
  <2>1. /\ DOMAIN breakpoints' = DOMAIN breakpoints \ {key}
        /\ \A k \in DOMAIN breakpoints' : breakpoints'[k] = breakpoints[k]
        /\ breakpoints' = [k \in DOMAIN breakpoints' |-> breakpoints'[k]]
        /\ breakpointIndex' = breakpointIndex
    BY <1>2 DEF Clear, Without
  <2>2. QED
    BY <2>1 DEF RegistryTypeOK, IndexAboveKeys
<1>3. QED
  BY <1>1, <1>2

-----------------------------------------------------------------------------

\* Initially (main.go:363-366).
LEMMA InitIInv == Init => IInv
<1> SUFFICES ASSUME Init PROVE IInv
  OBVIOUS
<1>1. RegistryTypeOK
  BY DEF Init, RegistryInit, RegistryTypeOK, Keys
<1>2. TypeOK
  BY <1>1 DEF Init, TypeOK
<1>3. IndexAboveKeys
  BY DEF Init, RegistryInit, IndexAboveKeys
<1>4. FlagsServe
  BY DEF Init, FlagsServe
<1>5. QED
  BY <1>2, <1>3, <1>4 DEF IInv

\* A step that leaves the registry alone keeps its invariants.
LEMMA RegistrySame ==
  ASSUME RegistryTypeOK, IndexAboveKeys, UNCHANGED registry
  PROVE  RegistryTypeOK' /\ IndexAboveKeys'
BY DEF RegistryTypeOK, IndexAboveKeys, registry

\* Every step keeps the registry sound (breakpoint.go:42-70).
LEMMA RegistryStep ==
  ASSUME IInv, Next
  PROVE  RegistryTypeOK' /\ IndexAboveKeys'
<1>1. RegistryTypeOK /\ IndexAboveKeys /\ (mode = "prompt" => event \in Events)
  BY DEF IInv, TypeOK
<1>2. ASSUME NEW l \in Lines, Break(l)
      PROVE  RegistryTypeOK' /\ IndexAboveKeys'
  <2>1. PICK r \in Locations[event.vertex] : AddUnnamed([file |-> r.file, line |-> l])
    BY <1>2 DEF Break
  <2>2. event.vertex \in Vertices
    BY <1>1, <1>2 DEF Break, AtPrompt, Events
  <2>3. r.file \in Files
    BY <2>1, <2>2, BreakpointsAssumption
  <2>4. [file |-> r.file, line |-> l] \in LineBreakpoints
    BY <2>3 DEF LineBreakpoints
  <2>5. QED
    BY <1>1, <2>1, <2>4, AddUnnamedStep
<1>3. CASE BreakOnFail
  BY <1>1, <1>3, AddOnFailStep DEF BreakOnFail
<1>4. CASE ClearAllCommand \/ \E k \in DOMAIN breakpoints : ClearCommand(k)
  BY <1>1, <1>4, ClearStep DEF ClearAllCommand, ClearCommand
<1>5. ASSUME UNCHANGED registry
      PROVE  RegistryTypeOK' /\ IndexAboveKeys'
  BY <1>1, <1>5, RegistrySame
<1>6. CASE \/ \E e \in Events : Arrive(e)
           \/ Skip \/ Ignore \/ Prompt
           \/ NextCommand \/ ContinueCommand \/ ReloadCommand \/ ExitCommand
           \/ \E k \in DOMAIN breakpoints : ContinueTo(k)
  BY <1>5, <1>6 DEF Arrive, Skip, Ignore, Prompt, NextCommand, ContinueCommand,
     ReloadCommand, ExitCommand, ContinueTo
<1>7. QED
  BY <1>2, <1>3, <1>4, <1>6 DEF Next, Command

\* Every step keeps the flags and the target in line with the last request
\* (handler.go:108-131, commands.go:76-90, break.go:101-138).
LEMMA FlagsStep ==
  ASSUME IInv, Next
  PROVE
         /\ breakEachVertex' \in BOOLEAN
         /\ entried' \in BOOLEAN
         /\ targetBreakpoint' \in Keys \cup {None}
         /\ mode' \in {"running", "handling", "prompt", "left"}
         /\ event' \in Events \cup {None}
         /\ asked' \in {"start", "next", "continue", "target", "none"}
         /\ askedKey' \in Keys \cup {None}
         /\ (event' = None) <=> (mode' = "running")
         /\ FlagsServe'
<1> DEFINE Goal ==
         /\ breakEachVertex' \in BOOLEAN
         /\ entried' \in BOOLEAN
         /\ targetBreakpoint' \in Keys \cup {None}
         /\ mode' \in {"running", "handling", "prompt", "left"}
         /\ event' \in Events \cup {None}
         /\ asked' \in {"start", "next", "continue", "target", "none"}
         /\ askedKey' \in Keys \cup {None}
         /\ (event' = None) <=> (mode' = "running")
         /\ FlagsServe'
<1>1. /\ TypeOK /\ FlagsServe
      /\ DOMAIN breakpoints \subseteq Keys
      /\ None \notin Keys \cup Events
  BY ShellAssumption DEF IInv, TypeOK, RegistryTypeOK
<1>2. ASSUME NEW e \in Events, Arrive(e)
      PROVE  Goal
  BY <1>1, <1>2 DEF Arrive, TypeOK, FlagsServe, handlerFlags, request
<1>3. CASE Skip
  BY <1>1, <1>3 DEF Skip, Resumed, TypeOK, FlagsServe, handlerFlags, request
<1>4. CASE Ignore
  <2>1. asked = "target"
    BY <1>1, <1>4 DEF Ignore, NotTheTarget, FlagsServe
  <2>2. QED
    BY <1>1, <1>4, <2>1 DEF Ignore, Resumed, TypeOK, FlagsServe, request
<1>5. CASE Prompt
  BY <1>1, <1>5 DEF Prompt, Asks, TypeOK, FlagsServe
<1>6. CASE AtPrompt /\ StayAtPrompt
  BY <1>1, <1>6 DEF AtPrompt, StayAtPrompt, TypeOK, FlagsServe, handlerFlags, request
<1>7. CASE NextCommand \/ ContinueCommand \/ ReloadCommand
  BY <1>1, <1>7 DEF NextCommand, ContinueCommand, ReloadCommand, AtPrompt, Resumed,
     Asks, TypeOK, FlagsServe
<1>8. CASE ExitCommand
  BY <1>1, <1>8 DEF ExitCommand, AtPrompt, TypeOK, FlagsServe, handlerFlags, request
<1>9. ASSUME NEW k \in DOMAIN breakpoints, ContinueTo(k)
      PROVE  Goal
  BY <1>1, <1>9 DEF ContinueTo, AtPrompt, Resumed, Asks, TypeOK, FlagsServe
<1>10. QED
  BY <1>2, <1>3, <1>4, <1>5, <1>6, <1>7, <1>8, <1>9
  DEF Next, Command, Break, BreakOnFail, ClearCommand, ClearAllCommand

\* Nothing happens when nothing changes.
LEMMA IInvStutter ==
  ASSUME IInv, UNCHANGED vars
  PROVE  IInv'
BY DEF IInv, TypeOK, RegistryTypeOK, IndexAboveKeys, FlagsServe, vars, registry,
       handlerFlags, request

\* The invariant holds in every reachable state.
THEOREM Invariance == Spec => []IInv
<1>1. IInv /\ [Next]_vars => IInv'
  BY RegistryStep, FlagsStep, IInvStutter DEF IInv, TypeOK
<1>2. QED
  BY InitIInv, <1>1, PTL DEF Spec

\* A new line breakpoint always gets a number nobody uses
\* (breakpoint.go:42-70).
THEOREM IndexIsFresh == Spec => []IndexAboveKeys
<1>1. IInv => IndexAboveKeys
  BY DEF IInv
<1>2. QED
  BY Invariance, <1>1, PTL

\* A pending target never reaches a new attempt (commands.go:76-90).
THEOREM TargetsAreFresh == Spec => []TargetIsFresh
<1>1. IInv => TargetIsFresh
  BY DEF IInv, FlagsServe, TargetIsFresh
<1>2. QED
  BY Invariance, <1>1, PTL

\* The variables keep their types.
THEOREM TypeCorrect == Spec => []TypeOK
<1>1. IInv => TypeOK
  BY DEF IInv
<1>2. QED
  BY Invariance, <1>1, PTL

-----------------------------------------------------------------------------
(* DebugShell implements StopPolicy *)

Armed == [e \in Events |-> Hits(e)]

\* With the registry, the armed keys stay.
LEMMA ArmedSame ==
  ASSUME UNCHANGED registry
  PROVE  UNCHANGED Armed
BY DEF Armed, Hits, IsTarget, registry

\* Whatever the registry holds, what it arms is a set of keys per event.
LEMMA ArmedTyped ==
  ASSUME RegistryTypeOK
  PROVE  Armed \in [Events -> SUBSET Keys]
BY DEF Armed, Hits, RegistryTypeOK

\* Handler.handle and breakHandler stop exactly where the policy says
\* (handler.go:122, commands.go:76-90).
LEMMA StopsIffWanted ==
  ASSUME IInv, mode = "handling"
  PROVE  Policy!Wanted(event) <=> ~Skipped /\ ~NotTheTarget
<1>1. /\ event \in Events
      /\ asked \in {"start", "next", "continue", "target"}
      /\ FlagsServe
  BY DEF IInv, TypeOK, FlagsServe
<1>2. Armed[event] = Hits(event)
  BY <1>1 DEF Armed
<1>3. Policy!Wanted(event) <=>
        /\ ~DisableBreakpoints
        /\ Locations[event.vertex] # {}
        /\ \/ PolicyResume \in {"entry", "next"}
           \/ PolicyResume = "continue" /\ Hits(event) # {}
           \/ PolicyResume = "target" /\ askedKey \in Hits(event)
  BY <1>1, <1>2 DEF Policy!Wanted, Armed
<1>4. CASE asked = "start"
  BY <1>1, <1>3, <1>4 DEF FlagsServe, PolicyResume, Skipped, NotTheTarget
<1>5. CASE asked = "next"
  BY <1>1, <1>3, <1>5 DEF FlagsServe, PolicyResume, Skipped, NotTheTarget
<1>6. CASE asked = "continue"
  BY <1>1, <1>3, <1>6 DEF FlagsServe, PolicyResume, Skipped, NotTheTarget
<1>7. CASE asked = "target"
  BY <1>1, <1>3, <1>7 DEF FlagsServe, PolicyResume, Skipped, NotTheTarget
<1>8. QED
  BY <1>1, <1>4, <1>5, <1>6, <1>7

\* Every step of the shell is a step of the policy or a stutter.
LEMMA PolicyNext ==
  ASSUME IInv, [Next]_vars
  PROVE  [Policy!Next]_(Policy!vars)
<1>a. /\ TypeOK /\ TypeOK' /\ FlagsServe
      /\ RegistryTypeOK /\ RegistryTypeOK'
  BY RegistryStep, FlagsStep, IInvStutter DEF IInv, TypeOK
<1>1. ASSUME NEW e \in Events, Arrive(e)
      PROVE  Policy!Reach(e)
  <2>1. UNCHANGED Armed
    BY <1>1, ArmedSame DEF Arrive
  <2>2. QED
    BY <1>1, <2>1 DEF Arrive, Policy!Reach, PolicyMode, PolicyResume, Armed,
                      request
<1>2. CASE Skip \/ Ignore
  <2>1. UNCHANGED Armed
    BY <1>2, ArmedSame DEF Skip, Ignore
  <2>2. ~Policy!Wanted(event)
    BY <1>2, StopsIffWanted DEF Skip, Ignore
  <2>3. Policy!Pass
    BY <1>2, <2>1, <2>2 DEF Skip, Ignore, Resumed, Policy!Pass, PolicyMode,
                            PolicyResume, request, Armed
  <2>4. QED
    BY <2>3 DEF Policy!Next
<1>3. CASE Prompt
  <2>1. UNCHANGED Armed
    BY <1>3, ArmedSame DEF Prompt
  <2>2. Policy!Wanted(event)
    BY <1>3, StopsIffWanted DEF Prompt
  <2>3. QED
    BY <1>3, <2>1, <2>2 DEF Prompt, Asks, Policy!Stop, Policy!Next, PolicyMode,
                            PolicyResume, Armed
<1>4. CASE AtPrompt /\ StayAtPrompt
  <2>1. Armed' \in [Events -> SUBSET Keys]
    BY <1>a, ArmedTyped DEF Armed, Hits, IsTarget, RegistryTypeOK
  <2>2. QED
    BY <1>4, <2>1 DEF AtPrompt, StayAtPrompt, Policy!Edit, Policy!Next, PolicyMode,
                      PolicyResume, Armed, request
<1>5. CASE NextCommand \/ ContinueCommand \/ ReloadCommand
  <2>1. UNCHANGED Armed
    BY <1>5, ArmedSame DEF NextCommand, ContinueCommand, ReloadCommand
  <2>2. QED
    BY <1>5, <2>1 DEF AtPrompt, Asks, NextCommand, ContinueCommand, ReloadCommand, Resumed,
       Policy!Resume, Policy!Fresh, Policy!Next, PolicyMode, PolicyResume, Armed
<1>6. ASSUME NEW k \in DOMAIN breakpoints, ContinueTo(k)
      PROVE  Policy!Next
  <2>1. UNCHANGED Armed
    BY <1>6, ArmedSame DEF ContinueTo
  <2>2. k \in Keys
    BY <1>6, <1>a DEF RegistryTypeOK
  <2>3. QED
    BY <1>6, <2>1, <2>2 DEF ContinueTo, AtPrompt, Asks, Resumed, Policy!Resume,
       Policy!Next, PolicyMode, PolicyResume, Armed
<1>7. CASE ExitCommand
  <2>1. UNCHANGED Armed
    BY <1>7, ArmedSame DEF ExitCommand
  <2>2. QED
    BY <1>7, <2>1 DEF ExitCommand, AtPrompt, Policy!Leave, Policy!Next, PolicyMode,
                      PolicyResume, request, Armed
<1>8. CASE UNCHANGED vars
  <2>1. UNCHANGED Armed
    BY <1>8, ArmedSame DEF vars
  <2>2. QED
    BY <1>8, <2>1 DEF vars, Policy!vars, PolicyMode, PolicyResume, Armed,
                      request
<1>9. QED
  BY <1>1, <1>2, <1>3, <1>4, <1>5, <1>6, <1>7, <1>8
  DEF Next, Command, Break, BreakOnFail, ClearCommand, ClearAllCommand, Policy!Next

\* The build stops where the user was promised it would, and nowhere else
\* (handler.go:108-131, commands.go:72-110, break.go:101-138).
THEOREM ShellImplementsPolicy == Spec => StopsWherePromised
<1>1. Init => Policy!Init
  <2> SUFFICES ASSUME Init PROVE Policy!Init
    OBVIOUS
  <2>1. RegistryTypeOK
    BY InitIInv DEF IInv, TypeOK
  <2>2. Armed \in [Events -> SUBSET Keys]
    BY <2>1, ArmedTyped
  <2>3. QED
    BY <2>2 DEF Init, Policy!Init, Policy!Fresh, PolicyMode, PolicyResume, Armed
<1>2. IInv /\ [Next]_vars => [Policy!Next]_(Policy!vars)
  BY PolicyNext
<1>3. QED
  BY <1>1, <1>2, Invariance, PTL DEF Spec, StopsWherePromised, Policy!Spec

-----------------------------------------------------------------------------
(* One listing *)

\* What printLines starts with.
Start == [lastLinePrinted |-> FALSE, text |-> <<>>]

IsPass(g, n, f, before, after, all) ==
  g = [i \in 0..n |-> IF i = 0 THEN Start ELSE PrintLine(f, i, before, after, all, g[i - 1])]

\* A least counterexample, where an induction over the lines is meant.
LEMMA SmallestNumber ==
  ASSUME NEW T, T \subseteq Nat, T # {}
  PROVE  \E x \in T : \A y \in T : x <= y
<1>1. PICK x \in T : \A y \in T : ~ (<<y, x>> \in OpToRel(<, Nat))
  BY NatLessThanWellFounded, WFMin
<1>2. ASSUME NEW y \in T PROVE x <= y
  <2>1. x \in Nat /\ y \in Nat
    OBVIOUS
  <2>2. y < x => <<y, x>> \in OpToRel(<, Nat)
    BY <2>1 DEF OpToRel
  <2>3. ~ (<<y, x>> \in OpToRel(<, Nat))
    BY <1>1
  <2>4. ~ (y < x)
    BY <2>2, <2>3
  <2> QED BY <2>1, <2>4
<1> QED BY <1>2

\* The function printLines is written with exists: a pass over n lines.
LEMMA PassExists ==
  ASSUME NEW n \in Nat, NEW f, NEW before, NEW after, NEW all
  PROVE  \E g : IsPass(g, n, f, before, after, all)
<1> DEFINE Bad == {m \in Nat : ~ \E g : IsPass(g, m, f, before, after, all)}
           Line(i, out) == PrintLine(f, i, before, after, all, out)
<1> SUFFICES ASSUME Bad # {} PROVE FALSE
  OBVIOUS
<1>1. PICK m \in Bad : \A k \in Bad : m <= k
  BY SmallestNumber
<1>2. m # 0
  <2>1. IsPass([i \in 0..0 |-> Start], 0, f, before, after, all)
    BY DEF IsPass
  <2> QED BY <2>1
<1>3. m - 1 \in Nat /\ m - 1 \notin Bad
  BY <1>1, <1>2
<1>4. PICK g : IsPass(g, m - 1, f, before, after, all)
  BY <1>3
<1> DEFINE h == [i \in 0..m |-> IF i = m THEN Line(m, g[m - 1]) ELSE g[i]]
<1>5. g = [i \in 0..m - 1 |-> IF i = 0 THEN Start ELSE Line(i, g[i - 1])]
  BY <1>4 DEF IsPass
<1>6. h = [i \in 0..m |-> IF i = 0 THEN Start ELSE Line(i, h[i - 1])]
  <2> HIDE DEF Line
  <2> QED BY <1>2, <1>3, <1>5
<1>7. IsPass(h, m, f, before, after, all)
  <2> HIDE DEF h
  <2> QED BY <1>6 DEF IsPass
<1> QED BY <1>7

\* What printLines goes through, line by line (list.go:72-110).
LEMMA PassOf ==
  ASSUME NEW f, NEW before, NEW after, NEW all
  PROVE  \E g : /\ IsPass(g, LineCount, f, before, after, all)
                /\ PrintLines(f, before, after, all) = g[LineCount].text
<1> DEFINE g == CHOOSE out : IsPass(out, LineCount, f, before, after, all)
<1>1. IsPass(g, LineCount, f, before, after, all)
  BY PassExists, ListingAssumption
<1>2. PrintLines(f, before, after, all) = g[LineCount].text
  BY DEF PrintLines, IsPass, Start
<1> QED BY <1>1, <1>2

LineRecords == [line : Nat, marked : BOOLEAN, target : BOOLEAN]

Owed(f, i, before, after, all) == \E r \in RangesIn(f) : Near(r, i, before, after, all)

RowOf(f, i, before, after, all) ==
  [line |-> i, marked |-> IsMarked(f, i),
   target |-> \E r \in {q \in RangesIn(f) : Near(q, i, before, after, all)} :
                r.start <= i /\ i <= r.end]

\* What there is of the listing behind line n.
LinesListed(text, n, f, before, after, all) ==
  /\ \A j \in Rows(text) :
       /\ text[j].line \in 1..n /\ Owed(f, text[j].line, before, after, all)
       /\ text[j] = RowOf(f, text[j].line, before, after, all)
  /\ \A i \in 1..n : Owed(f, i, before, after, all) => \E j \in Rows(text) : text[j].line = i

InOrder(text) == \A j, k \in Rows(text) : j < k => text[j].line < text[k].line

Separated(text) ==
  \A j \in 1..Len(text) :
    /\ text[j] = Separator => j > 1 /\ j < Len(text) /\ text[j + 1].line > text[j - 1].line + 1
    /\ j > 1 /\ text[j].line > text[j - 1].line + 1 => text[j - 1] = Separator

Written(text, n, f, before, after, all) ==
  /\ text \in Seq(LineRecords)
  /\ LinesListed(text, n, f, before, after, all)
  /\ InOrder(text) /\ Separated(text)

EndsAt(text, n) == text # <<>> /\ text[Len(text)].line = n

\* What holds of printLines behind line n.
Listed(out, n, f, before, after, all) ==
  /\ out = [lastLinePrinted |-> out.lastLinePrinted, text |-> out.text]
  /\ Written(out.text, n, f, before, after, all)
  /\ out.lastLinePrinted <=> EndsAt(out.text, n)

LEMMA RowTyped ==
  ASSUME NEW f, NEW i \in Nat \ {0}, NEW before, NEW after, NEW all
  PROVE  /\ RowOf(f, i, before, after, all) \in LineRecords
         /\ RowOf(f, i, before, after, all).line = i
         /\ RowOf(f, i, before, after, all) # Separator
         /\ Separator \in LineRecords /\ Separator.line = 0
<1>1. /\ RowOf(f, i, before, after, all) \in LineRecords
      /\ RowOf(f, i, before, after, all).line = i
  BY DEF RowOf, LineRecords, IsMarked
<1>2. Separator \in LineRecords /\ Separator.line = 0
  BY DEF Separator, LineRecords
<1> QED BY <1>1, <1>2

\* The line is printed right behind what is there.
LEMMA Follows ==
  ASSUME NEW f, NEW before, NEW after, NEW all, NEW n \in Nat, NEW t,
         Written(t, n, f, before, after, all), Owed(f, n + 1, before, after, all),
         t = <<>> \/ EndsAt(t, n)
  PROVE  LET u == Append(t, RowOf(f, n + 1, before, after, all))
         IN  Written(u, n + 1, f, before, after, all) /\ EndsAt(u, n + 1)
<1> DEFINE u == Append(t, RowOf(f, n + 1, before, after, all))
<1> SUFFICES Written(u, n + 1, f, before, after, all) /\ EndsAt(u, n + 1)
  OBVIOUS
<1>0. /\ t \in Seq(LineRecords) /\ LinesListed(t, n, f, before, after, all)
      /\ InOrder(t) /\ Separated(t)
      /\ t # <<>> => t[Len(t)].line = n
  BY DEF Written, EndsAt
<1> DEFINE row == RowOf(f, n + 1, before, after, all)
<1>1. /\ row \in LineRecords /\ row.line = n + 1 /\ row # Separator /\ Separator.line = 0
  BY RowTyped
<1> HIDE DEF row
<1>2. /\ u \in Seq(LineRecords) /\ Len(u) = Len(t) + 1 /\ Len(t) \in Nat
      /\ \A j \in 1..Len(t) : u[j] = t[j]
      /\ u[Len(t) + 1] = row
  BY <1>0, <1>1, AppendProperties DEF row
<1> HIDE DEF u
<1>3. Rows(u) = Rows(t) \cup {Len(t) + 1}
  BY <1>1, <1>2 DEF Rows
<1>4. \A j \in Rows(t) : j \in 1..Len(t) /\ u[j] = t[j] /\ t[j].line \in 1..n
  BY <1>0, <1>2 DEF Rows, LinesListed
<1>5. LinesListed(u, n + 1, f, before, after, all)
  <2>1. ASSUME NEW j \in Rows(u)
        PROVE  /\ u[j].line \in 1..n + 1 /\ Owed(f, u[j].line, before, after, all)
               /\ u[j] = RowOf(f, u[j].line, before, after, all)
    <3>1. CASE j \in Rows(t)
      BY <1>0, <1>4, <3>1 DEF LinesListed
    <3>2. CASE j = Len(t) + 1
      BY <1>1, <1>2, <3>2 DEF row
    <3> QED BY <1>3, <3>1, <3>2
  <2>2. ASSUME NEW i \in 1..n + 1, Owed(f, i, before, after, all)
        PROVE  \E j \in Rows(u) : u[j].line = i
    <3>1. CASE i \in 1..n
      BY <1>0, <1>3, <1>4, <2>2, <3>1 DEF LinesListed
    <3>2. CASE i = n + 1
      BY <1>1, <1>2, <1>3, <3>2
    <3>3. i \in 1..n \/ i = n + 1
      OBVIOUS
    <3> QED BY <3>1, <3>2, <3>3
  <2> QED BY <2>1, <2>2 DEF LinesListed
<1>6. InOrder(u)
  <2> SUFFICES ASSUME NEW j \in Rows(u), NEW k \in Rows(u), j < k
               PROVE  u[j].line < u[k].line
    BY DEF InOrder
  <2>1. j \in Rows(t)
    BY <1>2, <1>3, <1>4
  <2>2. CASE k \in Rows(t)
    BY <1>0, <1>4, <2>1, <2>2 DEF InOrder
  <2>3. CASE k = Len(t) + 1
    <3>1. u[k].line = n + 1
      BY <1>1, <1>2, <2>3
    <3>2. \A l \in 1..n : l < n + 1
      OBVIOUS
    <3>3. u[j].line < n + 1
      BY <1>4, <2>1, <3>2
    <3> QED BY <3>1, <3>3
  <2> QED BY <1>3, <2>2, <2>3
<1>7. Separated(u)
  <2> SUFFICES ASSUME NEW j \in 1..Len(u)
               PROVE  /\ u[j] = Separator =>
                           j > 1 /\ j < Len(u) /\ u[j + 1].line > u[j - 1].line + 1
                      /\ j > 1 /\ u[j].line > u[j - 1].line + 1 => u[j - 1] = Separator
    BY DEF Separated
  <2>1. CASE j \in 1..Len(t)
    <3>1. u[j] = t[j] /\ (j > 1 => u[j - 1] = t[j - 1]) /\ (j < Len(t) => u[j + 1] = t[j + 1])
      BY <1>2, <2>1
    <3> QED BY <1>0, <1>2, <2>1, <3>1 DEF Separated
  <2>2. CASE j = Len(t) + 1
    <3>1. j > 1 => u[j - 1] = t[Len(t)] /\ t # <<>>
      BY <1>0, <1>2, <2>2
    <3> QED BY <1>0, <1>1, <1>2, <2>2, <3>1
  <2> QED BY <1>2, <2>1, <2>2
<1>8. u # <<>> /\ u[Len(u)].line = n + 1
  BY <1>1, <1>2
<1> QED BY <1>2, <1>5, <1>6, <1>7, <1>8 DEF Written, EndsAt

\* A separator goes in front: the line before it ends a gap.
LEMMA FollowsGap ==
  ASSUME NEW f, NEW before, NEW after, NEW all, NEW n \in Nat, NEW t,
         Written(t, n, f, before, after, all), Owed(f, n + 1, before, after, all),
         t # <<>>, ~EndsAt(t, n)
  PROVE  LET u == Append(Append(t, Separator), RowOf(f, n + 1, before, after, all))
         IN  Written(u, n + 1, f, before, after, all) /\ EndsAt(u, n + 1)
<1> DEFINE u == Append(Append(t, Separator), RowOf(f, n + 1, before, after, all))
<1> SUFFICES Written(u, n + 1, f, before, after, all) /\ EndsAt(u, n + 1)
  OBVIOUS
<1>0. /\ t \in Seq(LineRecords) /\ LinesListed(t, n, f, before, after, all)
      /\ InOrder(t) /\ Separated(t)
      /\ t # <<>> /\ t[Len(t)].line # n
  BY DEF Written, EndsAt
<1> DEFINE row == RowOf(f, n + 1, before, after, all)   v == Append(t, Separator)
<1>1. /\ row \in LineRecords /\ row.line = n + 1 /\ row # Separator
      /\ Separator \in LineRecords /\ Separator.line = 0
  BY RowTyped
<1>2. /\ v \in Seq(LineRecords) /\ Len(v) = Len(t) + 1 /\ Len(t) \in Nat /\ Len(t) > 0
      /\ \A j \in 1..Len(t) : v[j] = t[j]
      /\ v[Len(t) + 1] = Separator
  BY <1>0, <1>1, AppendProperties, EmptySeq
<1> HIDE DEF row, v
<1>3. /\ u \in Seq(LineRecords) /\ Len(u) = Len(v) + 1
      /\ \A j \in 1..Len(v) : u[j] = v[j]
      /\ u[Len(v) + 1] = row
  BY <1>1, <1>2, AppendProperties DEF row, v
<1> HIDE DEF u
<1>4. /\ Len(u) = Len(t) + 2 /\ \A j \in 1..Len(t) : u[j] = t[j]
      /\ u[Len(t) + 1] = Separator /\ u[Len(t) + 2] = row
  BY <1>2, <1>3
<1>5. Rows(u) = Rows(t) \cup {Len(t) + 2}
  <2>1. \A j \in 1..Len(u) : j \in 1..Len(t) \/ j = Len(t) + 1 \/ j = Len(t) + 2
    BY <1>2, <1>4
  <2>2. \A j \in Rows(u) : j \in Rows(t) \/ j = Len(t) + 2
    BY <1>4, <2>1 DEF Rows
  <2>3. \A j \in Rows(t) : j \in Rows(u)
    BY <1>2, <1>4 DEF Rows
  <2>4. Len(t) + 2 \in Rows(u)
    BY <1>1, <1>2, <1>4 DEF Rows
  <2> QED BY <2>2, <2>3, <2>4
<1>6. \A j \in Rows(t) : j \in 1..Len(t) /\ u[j] = t[j] /\ t[j].line \in 1..n
  BY <1>0, <1>4 DEF Rows, LinesListed
<1>7. LinesListed(u, n + 1, f, before, after, all)
  <2>1. ASSUME NEW j \in Rows(u)
        PROVE  /\ u[j].line \in 1..n + 1 /\ Owed(f, u[j].line, before, after, all)
               /\ u[j] = RowOf(f, u[j].line, before, after, all)
    <3>1. CASE j \in Rows(t)
      BY <1>0, <1>6, <3>1 DEF LinesListed
    <3>2. CASE j = Len(t) + 2
      BY <1>1, <1>4, <3>2 DEF row
    <3> QED BY <1>5, <3>1, <3>2
  <2>2. ASSUME NEW i \in 1..n + 1, Owed(f, i, before, after, all)
        PROVE  \E j \in Rows(u) : u[j].line = i
    <3>1. CASE i \in 1..n
      BY <1>0, <1>5, <1>6, <2>2, <3>1 DEF LinesListed
    <3>2. CASE i = n + 1
      BY <1>1, <1>4, <1>5, <3>2
    <3>3. i \in 1..n \/ i = n + 1
      OBVIOUS
    <3> QED BY <3>1, <3>2, <3>3
  <2> QED BY <2>1, <2>2 DEF LinesListed
<1>8. InOrder(u)
  <2> SUFFICES ASSUME NEW j \in Rows(u), NEW k \in Rows(u), j < k
               PROVE  u[j].line < u[k].line
    BY DEF InOrder
  <2>1. j \in Rows(t)
    BY <1>2, <1>5, <1>6
  <2>2. CASE k \in Rows(t)
    BY <1>0, <1>6, <2>1, <2>2 DEF InOrder
  <2>3. CASE k = Len(t) + 2
    <3>1. u[k].line = n + 1
      BY <1>1, <1>4, <2>3
    <3>2. \A l \in 1..n : l < n + 1
      OBVIOUS
    <3>3. u[j].line < n + 1
      BY <1>6, <2>1, <3>2
    <3> QED BY <3>1, <3>3
  <2> QED BY <1>5, <2>2, <2>3
<1>9. /\ t[Len(t)].line \in 1..n /\ n + 1 > t[Len(t)].line + 1
      /\ ~(0 > t[Len(t)].line + 1)
  <2>1. Len(t) \in 1..Len(t)
    BY <1>2
  <2>2. Len(t) \in Rows(t)
    BY <1>0, <2>1 DEF Rows, Separated
  <2> QED BY <1>0, <1>6, <2>2
<1>10. Separated(u)
  <2> SUFFICES ASSUME NEW j \in 1..Len(u)
               PROVE  /\ u[j] = Separator =>
                           j > 1 /\ j < Len(u) /\ u[j + 1].line > u[j - 1].line + 1
                      /\ j > 1 /\ u[j].line > u[j - 1].line + 1 => u[j - 1] = Separator
    BY DEF Separated
  <2>1. CASE j \in 1..Len(t)
    <3>1. u[j] = t[j] /\ (j > 1 => u[j - 1] = t[j - 1]) /\ (j < Len(t) => u[j + 1] = t[j + 1])
      BY <1>4, <2>1
    <3> QED BY <1>0, <1>4, <2>1, <3>1 DEF Separated
  <2>2. CASE j = Len(t) + 1
    <3>1. u[j] = Separator /\ u[j - 1] = t[Len(t)] /\ u[j + 1] = row /\ j > 1 /\ j < Len(u)
      BY <1>2, <1>4, <2>2
    <3>2. u[j].line = 0 /\ u[j + 1].line = n + 1 /\ u[j - 1].line = t[Len(t)].line
      BY <1>1, <3>1
    <3>3. u[j + 1].line > u[j - 1].line + 1
      BY <1>9, <3>2, Zenon
    <3>4. ~(u[j].line > u[j - 1].line + 1)
      BY <1>9, <3>2, Zenon
    <3> QED BY <3>1, <3>3, <3>4
  <2>3. CASE j = Len(t) + 2
    <3>1. u[j] = row /\ u[j - 1] = Separator
      BY <1>2, <1>4, <2>3
    <3> QED BY <1>1, <3>1
  <2> QED BY <1>2, <1>4, <2>1, <2>2, <2>3
<1>11. u # <<>> /\ u[Len(u)].line = n + 1
  BY <1>1, <1>2, <1>4
<1> QED BY <1>3, <1>7, <1>8, <1>10, <1>11 DEF Written, EndsAt

\* One round of the loop: line n + 1 is printed or left out.
LEMMA LineStep ==
  ASSUME NEW f, NEW before, NEW after, NEW all, NEW n \in Nat, NEW out,
         Listed(out, n, f, before, after, all)
  PROVE  Listed(PrintLine(f, n + 1, before, after, all, out), n + 1, f, before, after, all)
<1> DEFINE t == out.text   new == PrintLine(f, n + 1, before, after, all, out)
           near == {r \in RangesIn(f) : Near(r, n + 1, before, after, all)}
           row == RowOf(f, n + 1, before, after, all)
<1>1. /\ Written(t, n, f, before, after, all) /\ t \in Seq(LineRecords)
      /\ out.lastLinePrinted <=> EndsAt(t, n)
      /\ out = [lastLinePrinted |-> out.lastLinePrinted, text |-> t]
  BY DEF Listed, Written
<1>2. near # {} <=> Owed(f, n + 1, before, after, all)
  BY DEF Owed
<1>3. row \in LineRecords /\ Separator \in LineRecords
  BY RowTyped
<1> SUFFICES Listed(new, n + 1, f, before, after, all)
  OBVIOUS
<1>4. CASE near = {}
  <2>1. new = [lastLinePrinted |-> FALSE, text |-> t]
    <3>1. new = [out EXCEPT !.lastLinePrinted = FALSE]
      BY <1>4 DEF PrintLine
    <3> QED BY <1>1, <3>1
  <2>2. LinesListed(t, n + 1, f, before, after, all)
    <3>1. \A i \in 1..n + 1 : i \in 1..n \/ i = n + 1
      OBVIOUS
    <3>2. \A i \in 1..n : i \in 1..n + 1
      OBVIOUS
    <3> QED BY <1>1, <1>2, <1>4, <3>1, <3>2 DEF Written, LinesListed
  <2>3. ~EndsAt(t, n + 1)
    <3> SUFFICES ASSUME t # <<>>, t[Len(t)].line = n + 1 PROVE FALSE
      BY DEF EndsAt
    <3>1. Len(t) \in 1..Len(t)
      BY <1>1, EmptySeq
    <3>2. t[Len(t)] # Separator
      BY <1>1, <3>1 DEF Written, Separated
    <3>3. Len(t) \in Rows(t)
      BY <3>1, <3>2 DEF Rows
    <3>4. t[Len(t)].line \in 1..n
      BY <1>1, <3>3 DEF Written, LinesListed
    <3> QED BY <3>4
  <2> HIDE DEF new
  <2> QED BY <1>1, <2>1, <2>2, <2>3 DEF Listed, Written
<1>5. CASE near # {}
  <2> DEFINE sep == IF ~out.lastLinePrinted /\ t # <<>> THEN <<Separator>> ELSE <<>>
             u == t \o sep \o <<row>>
  <2>1. new = [lastLinePrinted |-> TRUE, text |-> u]
    BY <1>5 DEF PrintLine, RowOf
  <2>2. Owed(f, n + 1, before, after, all)
    BY <1>2, <1>5
  <2> HIDE DEF row
  <2>3. CASE ~out.lastLinePrinted /\ t # <<>>
    <3>1. u = Append(Append(t, Separator), row)
      <4>1. t \o sep = Append(t, Separator) /\ Append(t, Separator) \in Seq(LineRecords)
        BY <1>1, <1>3, <2>3, AppendIsConcat, AppendProperties
      <4>2. u = Append(t, Separator) \o <<row>>
        BY <4>1
      <4> HIDE DEF u
      <4> QED BY <1>3, <4>1, <4>2, AppendIsConcat
    <3>2. t # <<>> /\ ~EndsAt(t, n)
      BY <1>1, <2>3
    <3>3. LET w == Append(Append(t, Separator), RowOf(f, n + 1, before, after, all))
          IN  Written(w, n + 1, f, before, after, all) /\ EndsAt(w, n + 1)
      <4> HIDE DEF t
      <4> QED BY <1>1, <2>2, <3>2, FollowsGap
    <3>4. Written(u, n + 1, f, before, after, all) /\ EndsAt(u, n + 1)
      BY <3>1, <3>3 DEF row
    <3> HIDE DEF u
    <3> HIDE DEF new
    <3> QED BY <2>1, <3>4 DEF Listed
  <2>4. CASE ~(~out.lastLinePrinted /\ t # <<>>)
    <3>1. u = Append(t, row)
      <4>1. t \o sep = t
        BY <1>1, <2>4, ConcatEmptySeq
      <4>2. u = t \o <<row>>
        BY <4>1
      <4> HIDE DEF u
      <4> QED BY <1>1, <1>3, <4>2, AppendIsConcat
    <3>2. t = <<>> \/ EndsAt(t, n)
      BY <1>1, <2>4
    <3>3. LET w == Append(t, RowOf(f, n + 1, before, after, all))
          IN  Written(w, n + 1, f, before, after, all) /\ EndsAt(w, n + 1)
      <4> HIDE DEF t
      <4> QED BY <1>1, <2>2, <3>2, Follows
    <3>4. Written(u, n + 1, f, before, after, all) /\ EndsAt(u, n + 1)
      BY <3>1, <3>3 DEF row
    <3> HIDE DEF u
    <3> HIDE DEF new
    <3> QED BY <2>1, <3>4 DEF Listed
  <2> QED BY <2>3, <2>4
<1> QED BY <1>4, <1>5

\* What a whole pass prints.
LEMMA PassIsListed ==
  ASSUME NEW f, NEW before, NEW after, NEW all
  PROVE  Written(PrintLines(f, before, after, all), LineCount, f, before, after, all)
<1>1. PICK g : /\ IsPass(g, LineCount, f, before, after, all)
               /\ PrintLines(f, before, after, all) = g[LineCount].text
  BY PassOf
<1> DEFINE Bad == {m \in 0..LineCount : ~Listed(g[m], m, f, before, after, all)}
<1>2. LineCount \in Nat
  BY ListingAssumption
<1>3. Bad = {}
  <2> SUFFICES ASSUME Bad # {} PROVE FALSE
    OBVIOUS
  <2>1. Bad \subseteq Nat
    BY <1>2
  <2>2. PICK m \in Bad : \A k \in Bad : m <= k
    BY <2>1, SmallestNumber
  <2>3. m \in 0..LineCount /\ ~Listed(g[m], m, f, before, after, all)
    OBVIOUS
  <2>4. CASE m = 0
    <3>1. g[0] = Start
      BY <1>1, <1>2 DEF IsPass
    <3>2. Listed(Start, 0, f, before, after, all)
      <4>1. <<>> \in Seq(LineRecords) /\ Len(<<>>) = 0 /\ Rows(<<>>) = {}
        BY DEF Rows
      <4> QED BY <4>1 DEF Start, Listed, Written, EndsAt, LinesListed, InOrder, Separated
    <3> QED BY <2>3, <2>4, <3>1, <3>2
  <2>5. CASE m # 0
    <3>1. m - 1 \in 0..LineCount /\ m - 1 \in Nat /\ (m - 1) + 1 = m /\ ~(m <= m - 1)
      BY <1>2, <2>3, <2>5
    <3>2. Listed(g[m - 1], m - 1, f, before, after, all)
      BY <2>2, <3>1
    <3>3. g[m] = PrintLine(f, m, before, after, all, g[m - 1])
      BY <1>1, <2>3, <2>5 DEF IsPass
    <3>4. Listed(PrintLine(f, (m - 1) + 1, before, after, all, g[m - 1]), (m - 1) + 1,
                 f, before, after, all)
      BY <3>1, <3>2, LineStep
    <3> QED BY <2>3, <3>1, <3>3, <3>4
  <2> QED BY <2>4, <2>5
<1>4. Listed(g[LineCount], LineCount, f, before, after, all)
  BY <1>2, <1>3
<1> QED BY <1>1, <1>4 DEF Listed

-----------------------------------------------------------------------------
(* The listings of a session *)

\* Only on-fail is under the key "on-fail", and only under it.
NumbersAreLines == \A k \in DOMAIN breakpoints \ {OnFail} : breakpoints[k] \in LineBreakpoints

LEMMA PutLines ==
  ASSUME NumbersAreLines, NEW key, NEW bp, Put(key, bp), key # OnFail => bp \in LineBreakpoints
  PROVE  NumbersAreLines'
<1>1. CASE key \in DOMAIN breakpoints
  BY <1>1 DEF Put, NumbersAreLines
<1>2. CASE key \notin DOMAIN breakpoints
  <2>1. breakpoints' = With(key, bp)
    BY <1>2 DEF Put
  <2>2. /\ DOMAIN breakpoints' = DOMAIN breakpoints \cup {key}
        /\ breakpoints'[key] = bp
        /\ \A k \in DOMAIN breakpoints \ {key} : breakpoints'[k] = breakpoints[k]
    BY <2>1 DEF With
  <2> QED BY <2>2 DEF NumbersAreLines
<1> QED BY <1>1, <1>2

LEMMA LinesStep ==
  ASSUME IInv, NumbersAreLines, [Next]_vars
  PROVE  NumbersAreLines'
<1>1. ASSUME NEW l \in Lines, Break(l)
      PROVE  NumbersAreLines'
  <2>1. PICK r \in Locations[event.vertex] : AddUnnamed([file |-> r.file, line |-> l])
    BY <1>1 DEF Break
  <2>2. event \in Events
    BY <1>1 DEF IInv, TypeOK, Break, AtPrompt
  <2>3. r.file \in Files
    BY <2>1, <2>2, BreakpointsAssumption DEF Events
  <2>4. [file |-> r.file, line |-> l] \in LineBreakpoints
    BY <2>3 DEF LineBreakpoints
  <2> QED BY <2>1, <2>4, PutLines DEF AddUnnamed
<1>2. CASE BreakOnFail
  BY <1>2, PutLines DEF BreakOnFail, AddNamed
<1>3. CASE ClearAllCommand
  BY <1>3 DEF ClearAllCommand, ClearAll, NoBreakpoints, NumbersAreLines
<1>4. ASSUME NEW k \in DOMAIN breakpoints, ClearCommand(k)
      PROVE  NumbersAreLines'
  BY <1>4 DEF ClearCommand, Clear, Without, NumbersAreLines
<1>5. CASE UNCHANGED registry
  BY <1>5 DEF registry, NumbersAreLines
<1>6. CASE \/ \E e \in Events : Arrive(e)
           \/ Skip \/ Ignore \/ Prompt
           \/ NextCommand \/ ContinueCommand \/ ReloadCommand \/ ExitCommand
           \/ \E k \in DOMAIN breakpoints : ContinueTo(k)
           \/ UNCHANGED vars
  BY <1>5, <1>6 DEF Arrive, Skip, Ignore, Prompt, NextCommand, ContinueCommand,
     ReloadCommand, ExitCommand, ContinueTo, vars
<1> QED BY <1>1, <1>2, <1>3, <1>4, <1>6 DEF Next, Command

WindowOf(f, before, after, all) ==
  {i \in 1..LineCount :
     all \/ \E r \in RangesIn(f) : i \in (r.start - before)..(r.end + after)}

\* What a pass prints is what the listing owes, with its marks and arrows.
LEMMA WrittenIsWindow ==
  ASSUME event \in Events, NumbersAreLines, NEW f \in Sources,
         NEW before \in Int, NEW after \in Int, NEW all \in BOOLEAN, NEW text,
         Written(text, LineCount, f, before, after, all)
  PROVE  /\ {text[j].line : j \in Rows(text)} = WindowOf(f, before, after, all)
         /\ \A j \in Rows(text) :
              /\ text[j].marked <=> \E k \in DOMAIN breakpoints :
                   k # OnFail /\ breakpoints[k].file = f /\ breakpoints[k].line = text[j].line
              /\ before >= 0 /\ after >= 0 =>
                   (text[j].target <=> \E r \in RangesIn(f) : text[j].line \in r.start..r.end)
<1>1. RangesIn(f) # {} /\ \A r \in RangesIn(f) : r.start \in Nat /\ r.end \in Nat
  <2>1. Locations[event.vertex] \subseteq [file : Files, start : Nat, end : Nat]
    BY BreakpointsAssumption DEF Events
  <2> QED BY <2>1 DEF RangesIn, Sources
<1>2. LinesListed(text, LineCount, f, before, after, all)
  BY DEF Written
<1>3. LineCount \in Nat
  BY ListingAssumption
<1>4. \A i \in 1..LineCount :
        Owed(f, i, before, after, all) <=> i \in WindowOf(f, before, after, all)
  BY <1>1, <1>3 DEF Owed, Near, WindowOf
<1>5. {text[j].line : j \in Rows(text)} = WindowOf(f, before, after, all)
  <2>1. \A j \in Rows(text) : text[j].line \in WindowOf(f, before, after, all)
    BY <1>2, <1>4 DEF LinesListed
  <2>2. \A i \in WindowOf(f, before, after, all) : \E j \in Rows(text) : text[j].line = i
    <3>1. WindowOf(f, before, after, all) \subseteq 1..LineCount
      BY DEF WindowOf
    <3> QED BY <1>2, <1>4, <3>1 DEF LinesListed
  <2> QED BY <2>1, <2>2
<1>6. ASSUME NEW j \in Rows(text)
      PROVE  /\ text[j].marked <=> \E k \in DOMAIN breakpoints :
                  k # OnFail /\ breakpoints[k].file = f /\ breakpoints[k].line = text[j].line
             /\ before >= 0 /\ after >= 0 =>
                  (text[j].target <=> \E r \in RangesIn(f) : text[j].line \in r.start..r.end)
  <2> DEFINE i == text[j].line
  <2>1. /\ text[j] = RowOf(f, i, before, after, all) /\ i \in 1..LineCount
    BY <1>2 DEF LinesListed
  <2> HIDE DEF i
  <2>2. text[j].marked <=> IsMarked(f, i)
    BY <2>1 DEF RowOf
  <2>3. IsMarked(f, i) <=> \E k \in DOMAIN breakpoints :
          k # OnFail /\ breakpoints[k].file = f /\ breakpoints[k].line = i
    BY DEF IsMarked, NumbersAreLines, LineBreakpoints
  <2>4. text[j].target <=> \E r \in {q \in RangesIn(f) : Near(q, i, before, after, all)} :
                             r.start <= i /\ i <= r.end
    BY <2>1 DEF RowOf
  <2>5. ASSUME before >= 0, after >= 0
        PROVE  text[j].target <=> \E r \in RangesIn(f) : i \in r.start..r.end
    <3>1. \A r \in RangesIn(f) :
            r.start <= i /\ i <= r.end => Near(r, i, before, after, all)
      BY <1>1, <1>3, <2>1, <2>5 DEF Near
    <3>2. \A r \in RangesIn(f) : i \in r.start..r.end <=> r.start <= i /\ i <= r.end
      BY <1>1, <1>3, <2>1
    <3> QED BY <2>4, <3>1, <3>2
  <2> QED BY <2>2, <2>3, <2>5 DEF i
<1> QED BY <1>5, <1>6

\* Every listing a prompt or the list command makes is the one owed.
LEMMA ShowsWindow ==
  ASSUME NumbersAreLines, event \in Events, UNCHANGED <<event, breakpoints>>,
         NEW before \in Int, NEW after \in Int, NEW all \in BOOLEAN, Shows(before, after, all)
  PROVE  ListsTheWindow'
<1>1. /\ shown'.before = before /\ shown'.after = after /\ shown'.all = all
      /\ shown'.text = [f \in Sources |-> PrintLines(f, before, after, all)]
  BY DEF Shows
<1>2. Sources' = Sources /\ \A f : RangesIn(f)' = RangesIn(f)
  BY DEF Sources, RangesIn
<1>3. ASSUME NEW f \in Sources
      PROVE  LET text == shown'.text[f] IN
             /\ {text[j].line : j \in Rows(text)} = Window(f)'
             /\ \A j, k \in Rows(text) : j < k => text[j].line < text[k].line
             /\ \A j \in Rows(text) :
                  /\ text[j].marked <=> \E k \in DOMAIN breakpoints :
                       k # OnFail /\ breakpoints[k].file = f /\ breakpoints[k].line = text[j].line
                  /\ before >= 0 /\ after >= 0 =>
                       (text[j].target <=> \E r \in RangesIn(f) : text[j].line \in r.start..r.end)
             /\ Separated(text)
  <2> DEFINE text == PrintLines(f, before, after, all)
  <2>1. shown'.text[f] = text
    BY <1>1
  <2>2. Written(text, LineCount, f, before, after, all)
    BY PassIsListed
  <2> HIDE DEF text
  <2>3. Window(f)' = WindowOf(f, before, after, all)
    BY <1>1, <1>2 DEF Window, WindowOf
  <2> QED BY <2>1, <2>2, <2>3, WrittenIsWindow DEF Written, InOrder
<1> QED BY <1>1, <1>2, <1>3 DEF ListsTheWindow, Separated, Rows

\* The listings leave the session as it is: they run on top of it.
THEOREM ListingRunsShell == ListingSpec => Spec
<1>1. ListingInit => Init
  BY DEF ListingInit
<1>2. [ListingNext]_listingVars => [Next]_vars
  BY DEF ListingNext, PromptLists, ListCommand, Silent, Next, listingVars
<1> QED BY <1>1, <1>2, PTL DEF ListingSpec, Spec

\* A listing has the lines around the step once and in order, whatever ranges
\* and flags there are, with separators at the gaps, and marks what is set now
\* (list.go:59-111).
THEOREM ListingsAreWindows == ListingSpec => []ListsTheWindow
<1>1. ListingInit => ListsTheWindow /\ NumbersAreLines
  BY DEF ListingInit, Init, RegistryInit, ListsTheWindow, NumbersAreLines
<1>2. IInv /\ NumbersAreLines /\ ListsTheWindow /\ [ListingNext]_listingVars =>
        ListsTheWindow' /\ NumbersAreLines'
  <2> SUFFICES ASSUME IInv, NumbersAreLines, ListsTheWindow, [ListingNext]_listingVars
               PROVE  ListsTheWindow' /\ NumbersAreLines'
    OBVIOUS
  <2>1. [Next]_vars
    BY DEF ListingNext, PromptLists, ListCommand, Silent, Next, listingVars
  <2>2. NumbersAreLines'
    BY <2>1, LinesStep
  <2>3. CASE PromptLists
    <3>1. event \in Events /\ UNCHANGED <<event, breakpoints>>
      BY <2>3 DEF IInv, TypeOK, PromptLists, Prompt, registry
    <3>2. DefaultListRange \in Int /\ FALSE \in BOOLEAN
      BY ListingAssumption
    <3> QED BY <2>2, <2>3, <3>1, <3>2, ShowsWindow DEF PromptLists
  <2>4. ASSUME NEW range \in FlagValues, NEW A \in FlagValues, NEW B \in FlagValues,
               NEW all \in BOOLEAN, ListCommand(range, A, B, all)
        PROVE  ListsTheWindow'
    <3>1. event \in Events /\ UNCHANGED <<event, breakpoints>>
      BY <2>4 DEF IInv, TypeOK, ListCommand, AtPrompt, vars, registry
    <3>2. Flag(B, range) \in Int /\ Flag(A, range) \in Int
      BY ListingAssumption DEF Flag
    <3> QED BY <2>4, <3>1, <3>2, ShowsWindow DEF ListCommand
  <2>5. CASE Silent
    <3>1. shown' = None
      BY <2>5 DEF Silent
    <3> QED BY <2>2, <3>1 DEF ListsTheWindow
  <2>6. CASE UNCHANGED listingVars
    <3>1. shown' = shown /\ event' = event /\ breakpoints' = breakpoints
      BY <2>6 DEF listingVars, vars, registry
    <3>2. Sources' = Sources /\ \A f : RangesIn(f)' = RangesIn(f)
      BY <3>1 DEF Sources, RangesIn
    <3>3. \A f : Window(f)' = Window(f)
      BY <3>1, <3>2 DEF Window
    <3> QED BY <2>2, <3>1, <3>2, <3>3 DEF ListsTheWindow
  <2> QED BY <2>2, <2>3, <2>4, <2>5, <2>6 DEF ListingNext
<1> QED BY <1>1, <1>2, Invariance, ListingRunsShell, PTL DEF ListingSpec
=============================================================================
