----------------------- MODULE SessionLauncherProofs -----------------------
(***************************************************************************)
(* SessionLauncher keeps its types, runs rtl_ais_main twice at a time only *)
(* after a blind test, and tells a patient user each session's own code,  *)
(* for any number of sessions.                                             *)
(***************************************************************************)
EXTENDS SessionLauncher, FiniteSetTheorems, TLAPS

\* While no test of is_running was blind there is one session at most, none while
\* one is about to be created, and is_running is set as long as it is in
\* rtl_ais_main.
OneAtATime ==
  ~blind =>
    /\ \A s, t \in Starting \cup Inside : s = t
    /\ upc = "spawn" => Starting \cup Inside = {}
    /\ Inside # {} => running

\* is_running is never set without a session.
RunningIsSomebody == running => Inside # {}

\* A patient user has one session at most that was not reported, and none when
\* asking for another.
OneUnreported ==
  ~hasty =>
    /\ \A s, t \in Unreported : s = t
    /\ upc \in {"start", "spawn"} => Unreported = {}
    /\ upc \notin {"wait", "again"}

\* The codes that the sessions share are then those of that session.
CodesAreOwn ==
  ~hasty =>
    \A t \in Sessions :
      /\ tpc[t] # "wait"
      /\ tpc[t] \in {"set", "leave", "look", "judge", "report"} =>
           own[t] = exitcode
      /\ tpc[t] \in {"leave", "look", "judge", "report"} => exitcodeSet
      /\ tpc[t] \in {"unborn", "unset", "clear", "open", "run"} =>
           reported[t] = "none"

\* The inductive invariant.
IInv ==
  /\ TypeOK
  /\ OneAtATime /\ RunningIsSomebody
  /\ OneUnreported /\ CodesAreOwn
  /\ ReportsOwnCode

-----------------------------------------------------------------------------
(* Proofs.                                                                 *)

(* The steps, by what they are about. *)
AskStep == ServiceStart \/ ServiceStop \/ ServiceDestroyed \/ StartCloses
           \/ StartWaited

SpawnStep == StartFree \/ StartAgain \/ StartSpawns

ExitStep == ProcessExits \/ \E t \in Sessions : NativeExits(t)

ResetStep(t) == ResetSet(t) \/ ResetCode(t)

MainStep(t) == Open(t) \/ NativeEnds(t) \/ CodeSet(t) \/ Leave(t)

CloseStep(t) ==
  LookClosing(t) \/ LookSet(t) \/ Waited(t) \/ Judge(t) \/ Report(t)

\* Every step of the specification is one of these.
LEMMA Steps ==
  [Next]_vars <=>
    \/ AskStep \/ SpawnStep \/ ExitStep
    \/ \E t \in Sessions : ResetStep(t) \/ MainStep(t) \/ CloseStep(t)
    \/ UNCHANGED vars
BY DEF Next, UserStep, NativeStep, JavaStep, Over, AskStep, SpawnStep,
   ExitStep, ResetStep, MainStep, CloseStep

\* Every step keeps the types.
LEMMA TypeStep == TypeOK /\ [Next]_vars => TypeOK'
<1> SUFFICES ASSUME TypeOK, [Next]_vars PROVE TypeOK'
  OBVIOUS
<1> USE DEF TypeOK, Codes, ghostVars
<1>1. CASE AskStep
  <2>1. CASE ServiceStart
    BY <2>1 DEF ServiceStart, Close
  <2>2. CASE ServiceStop
    BY <2>2 DEF ServiceStop, Close
  <2>3. CASE ServiceDestroyed
    BY <2>3 DEF ServiceDestroyed, Close
  <2>4. CASE StartCloses
    BY <2>4 DEF StartCloses, Close
  <2>5. CASE StartWaited
    BY <2>5 DEF StartWaited
  <2> QED
    BY <1>1, <2>1, <2>2, <2>3, <2>4, <2>5 DEF AskStep
<1>2. CASE SpawnStep
  <2>1. CASE StartSpawns
    BY <2>1 DEF StartSpawns
  <2>2. CASE StartAgain
    BY <2>2 DEF StartAgain, FoundFree
  <2>3. CASE StartFree
    BY <2>3 DEF StartFree, FoundFree
  <2> QED
    BY <1>2, <2>1, <2>2, <2>3 DEF SpawnStep
<1>3. CASE ExitStep
  BY <1>3 DEF ExitStep, ProcessExits, NativeExits, ProcessEnds
<1>4. ASSUME NEW t \in Sessions, ResetStep(t) PROVE TypeOK'
  <2>1. CASE ResetSet(t)
    BY <2>1 DEF ResetSet, Go
  <2>2. CASE ResetCode(t)
    BY <2>2 DEF ResetCode, Go
  <2> QED
    BY <1>4, <2>1, <2>2 DEF ResetStep
<1>5. ASSUME NEW t \in Sessions, MainStep(t) PROVE TypeOK'
  <2>1. CASE Open(t)
    BY <2>1 DEF Open, Go
  <2>2. CASE NativeEnds(t)
    BY <2>2 DEF NativeEnds, Go
  <2>3. CASE CodeSet(t)
    BY <2>3 DEF CodeSet, Go
  <2>4. CASE Leave(t)
    BY <2>4 DEF Leave, Go
  <2> QED
    BY <1>5, <2>1, <2>2, <2>3, <2>4 DEF MainStep
<1>6. ASSUME NEW t \in Sessions, CloseStep(t) PROVE TypeOK'
  <2>1. CASE LookClosing(t)
    BY <2>1 DEF LookClosing, Close, Go
  <2>2. CASE LookSet(t)
    BY <2>2 DEF LookSet, Go
  <2>3. CASE Waited(t)
    BY <2>3 DEF Waited, Go
  <2>4. CASE Judge(t)
    BY <2>4 DEF Judge, Go
  <2>5. CASE Report(t)
    BY <2>5 DEF Report, Go
  <2> QED
    BY <1>6, <2>1, <2>2, <2>3, <2>4, <2>5 DEF CloseStep
<1>7. CASE UNCHANGED vars
  BY <1>7 DEF vars
<1> QED
  BY <1>1, <1>2, <1>3, <1>4, <1>5, <1>6, <1>7, Steps

\* Every step keeps the sessions apart as long as no test was blind, and
\* is_running with them.
LEMMA ApartStep ==
  IInv /\ [Next]_vars => OneAtATime' /\ RunningIsSomebody'
<1> SUFFICES ASSUME IInv, [Next]_vars
             PROVE OneAtATime' /\ RunningIsSomebody'
  OBVIOUS
<1> USE DEF IInv, TypeOK, OneAtATime, RunningIsSomebody, Starting, Inside,
        ghostVars
<1>1. CASE AskStep
  <2>1. CASE ServiceStart
    BY <2>1 DEF ServiceStart
  <2>2. CASE ServiceStop
    BY <2>2 DEF ServiceStop
  <2>3. CASE ServiceDestroyed
    BY <2>3 DEF ServiceDestroyed
  <2>4. CASE StartCloses
    BY <2>4 DEF StartCloses
  <2>5. CASE StartWaited
    BY <2>5 DEF StartWaited
  <2> QED
    BY <1>1, <2>1, <2>2, <2>3, <2>4, <2>5 DEF AskStep
<1>2. CASE SpawnStep
  <2>1. CASE StartSpawns
    BY <2>1 DEF StartSpawns
  <2>2. CASE StartAgain
    BY <2>2 DEF StartAgain, FoundFree
  <2>3. CASE StartFree
    BY <2>3 DEF StartFree, FoundFree
  <2> QED
    BY <1>2, <2>1, <2>2, <2>3 DEF SpawnStep
<1>3. CASE ExitStep
  BY <1>3 DEF ExitStep, ProcessExits, NativeExits, ProcessEnds
<1>4. ASSUME NEW t \in Sessions, ResetStep(t)
      PROVE OneAtATime' /\ RunningIsSomebody'
  <2>1. CASE ResetSet(t)
    BY <2>1 DEF ResetSet, Go
  <2>2. CASE ResetCode(t)
    BY <2>2 DEF ResetCode, Go
  <2> QED
    BY <1>4, <2>1, <2>2 DEF ResetStep
<1>5. ASSUME NEW t \in Sessions, MainStep(t)
      PROVE OneAtATime' /\ RunningIsSomebody'
  <2>1. CASE Open(t)
    BY <2>1 DEF Open, Go
  <2>2. CASE NativeEnds(t)
    BY <2>2 DEF NativeEnds, Go
  <2>3. CASE CodeSet(t)
    BY <2>3 DEF CodeSet, Go
  <2>4. CASE Leave(t)
    BY <2>4 DEF Leave, Go
  <2> QED
    BY <1>5, <2>1, <2>2, <2>3, <2>4 DEF MainStep
<1>6. ASSUME NEW t \in Sessions, CloseStep(t)
      PROVE OneAtATime' /\ RunningIsSomebody'
  <2>1. CASE LookClosing(t)
    BY <2>1 DEF LookClosing, Go
  <2>2. CASE LookSet(t)
    BY <2>2 DEF LookSet, Go
  <2>3. CASE Waited(t)
    BY <2>3 DEF Waited, Go
  <2>4. CASE Judge(t)
    BY <2>4 DEF Judge, Go
  <2>5. CASE Report(t)
    BY <2>5 DEF Report, Go
  <2> QED
    BY <1>6, <2>1, <2>2, <2>3, <2>4, <2>5 DEF CloseStep
<1>7. CASE UNCHANGED vars
  BY <1>7 DEF vars
<1> QED
  BY <1>1, <1>2, <1>3, <1>4, <1>5, <1>6, <1>7, Steps

\* Every step leaves a patient user one unreported session at most.
LEMMA PatientStep == IInv /\ [Next]_vars => OneUnreported'
<1> SUFFICES ASSUME IInv, [Next]_vars PROVE OneUnreported'
  OBVIOUS
<1>0. running /\ ~hasty => Unreported # {}
  BY DEF IInv, RunningIsSomebody, Inside, Unreported
<1> USE DEF IInv, TypeOK, OneUnreported, Unreported, ghostVars
<1>1. CASE AskStep
  <2>1. CASE ServiceStart
    BY <1>0, <2>1 DEF ServiceStart
  <2>2. CASE ServiceStop
    BY <1>0, <2>2 DEF ServiceStop
  <2>3. CASE ServiceDestroyed
    BY <1>0, <2>3 DEF ServiceDestroyed
  <2>4. CASE StartCloses
    BY <1>0, <2>4 DEF StartCloses
  <2>5. CASE StartWaited
    BY <1>0, <2>5 DEF StartWaited
  <2> QED
    BY <1>1, <2>1, <2>2, <2>3, <2>4, <2>5 DEF AskStep
<1>2. CASE SpawnStep
  <2>1. CASE StartSpawns
    BY <2>1 DEF StartSpawns
  <2>2. CASE StartAgain
    BY <2>2 DEF StartAgain, FoundFree
  <2>3. CASE StartFree
    BY <2>3 DEF StartFree, FoundFree
  <2> QED
    BY <1>2, <2>1, <2>2, <2>3 DEF SpawnStep
<1>3. CASE ExitStep
  BY <1>3 DEF ExitStep, ProcessExits, NativeExits, ProcessEnds
<1>4. ASSUME NEW t \in Sessions, ResetStep(t) PROVE OneUnreported'
  <2>1. CASE ResetSet(t)
    BY <2>1 DEF ResetSet, Go
  <2>2. CASE ResetCode(t)
    BY <2>2 DEF ResetCode, Go
  <2> QED
    BY <1>4, <2>1, <2>2 DEF ResetStep
<1>5. ASSUME NEW t \in Sessions, MainStep(t) PROVE OneUnreported'
  <2>1. CASE Open(t)
    BY <2>1 DEF Open, Go
  <2>2. CASE NativeEnds(t)
    BY <2>2 DEF NativeEnds, Go
  <2>3. CASE CodeSet(t)
    BY <2>3 DEF CodeSet, Go
  <2>4. CASE Leave(t)
    BY <2>4 DEF Leave, Go
  <2> QED
    BY <1>5, <2>1, <2>2, <2>3, <2>4 DEF MainStep
<1>6. ASSUME NEW t \in Sessions, CloseStep(t) PROVE OneUnreported'
  <2>1. CASE LookClosing(t)
    BY <2>1 DEF LookClosing, Go
  <2>2. CASE LookSet(t)
    BY <2>2 DEF LookSet, Go
  <2>3. CASE Waited(t)
    BY <2>3 DEF Waited, Go
  <2>4. CASE Judge(t)
    BY <2>4 DEF Judge, Go
  <2>5. CASE Report(t)
    BY <2>5 DEF Report, Go
  <2> QED
    BY <1>6, <2>1, <2>2, <2>3, <2>4, <2>5 DEF CloseStep
<1>7. CASE UNCHANGED vars
  BY <1>7 DEF vars
<1> QED
  BY <1>1, <1>2, <1>3, <1>4, <1>5, <1>6, <1>7, Steps

\* Every step leaves a patient user's codes to the one session they are of.
LEMMA CodesStep == IInv /\ [Next]_vars => CodesAreOwn' /\ ReportsOwnCode'
<1> SUFFICES ASSUME IInv, [Next]_vars PROVE CodesAreOwn' /\ ReportsOwnCode'
  OBVIOUS
<1> USE DEF IInv, TypeOK, OneUnreported, Unreported, CodesAreOwn,
        ReportsOwnCode, ghostVars
<1>1. CASE AskStep
  <2>1. CASE ServiceStart
    BY <2>1 DEF ServiceStart
  <2>2. CASE ServiceStop
    BY <2>2 DEF ServiceStop
  <2>3. CASE ServiceDestroyed
    BY <2>3 DEF ServiceDestroyed
  <2>4. CASE StartCloses
    BY <2>4 DEF StartCloses
  <2>5. CASE StartWaited
    BY <2>5 DEF StartWaited
  <2> QED
    BY <1>1, <2>1, <2>2, <2>3, <2>4, <2>5 DEF AskStep
<1>2. CASE SpawnStep
  <2>1. CASE StartSpawns
    BY <2>1 DEF StartSpawns
  <2>2. CASE StartAgain
    BY <2>2 DEF StartAgain, FoundFree
  <2>3. CASE StartFree
    BY <2>3 DEF StartFree, FoundFree
  <2> QED
    BY <1>2, <2>1, <2>2, <2>3 DEF SpawnStep
<1>3. CASE ExitStep
  BY <1>3 DEF ExitStep, ProcessExits, NativeExits, ProcessEnds
<1>4. ASSUME NEW t \in Sessions, ResetStep(t)
      PROVE CodesAreOwn' /\ ReportsOwnCode'
  <2>1. CASE ResetSet(t)
    BY <2>1 DEF ResetSet, Go
  <2>2. CASE ResetCode(t)
    BY <2>2 DEF ResetCode, Go
  <2> QED
    BY <1>4, <2>1, <2>2 DEF ResetStep
<1>5. ASSUME NEW t \in Sessions, MainStep(t)
      PROVE CodesAreOwn' /\ ReportsOwnCode'
  <2>1. CASE Open(t)
    BY <2>1 DEF Open, Go
  <2>2. CASE NativeEnds(t)
    BY <2>2 DEF NativeEnds, Go
  <2>3. CASE CodeSet(t)
    BY <2>3 DEF CodeSet, Go
  <2>4. CASE Leave(t)
    BY <2>4 DEF Leave, Go
  <2> QED
    BY <1>5, <2>1, <2>2, <2>3, <2>4 DEF MainStep
<1>6. ASSUME NEW t \in Sessions, CloseStep(t)
      PROVE CodesAreOwn' /\ ReportsOwnCode'
  <2>1. CASE LookClosing(t)
    BY <2>1 DEF LookClosing, Go
  <2>2. CASE LookSet(t)
    BY <2>2 DEF LookSet, Go
  <2>3. CASE Waited(t)
    BY <2>3 DEF Waited, Go
  <2>4. CASE Judge(t)
    BY <2>4 DEF Judge, Go
  <2>5. CASE Report(t)
    BY <2>5 DEF Report, Go
  <2> QED
    BY <1>6, <2>1, <2>2, <2>3, <2>4, <2>5 DEF CloseStep
<1>7. CASE UNCHANGED vars
  BY <1>7 DEF vars
<1> QED
  BY <1>1, <1>2, <1>3, <1>4, <1>5, <1>6, <1>7, Steps

\* The first state satisfies the invariant.
LEMMA InitIInv == Init => IInv
<1> SUFFICES ASSUME Init PROVE IInv
  OBVIOUS
<1>1. TypeOK
  BY DEF Init, TypeOK, Codes
<1>2. Starting = {} /\ Inside = {} /\ Unreported = {}
  BY DEF Init, Starting, Inside, Unreported
<1>3. OneAtATime /\ RunningIsSomebody
  BY <1>2 DEF Init, OneAtATime, RunningIsSomebody
<1>4. OneUnreported
  BY <1>2 DEF Init, OneUnreported
<1>5. CodesAreOwn /\ ReportsOwnCode
  BY DEF Init, CodesAreOwn, ReportsOwnCode
<1> QED
  BY <1>1, <1>3, <1>4, <1>5 DEF IInv

\* The strengthened invariant holds, for any number of sessions.
THEOREM LauncherInvariant == Spec => []IInv
<1>1. IInv /\ [Next]_vars => IInv'
  BY TypeStep, ApartStep, PatientStep, CodesStep DEF IInv
<1> QED
  BY InitIInv, <1>1, PTL DEF Spec

\* Every variable of the launcher keeps its type.
THEOREM LauncherTypeOK == Spec => []TypeOK
<1>1. IInv => TypeOK
  BY DEF IInv
<1> QED
  BY LauncherInvariant, <1>1, PTL

\* Two calls of rtl_ais_main overlap only after a blind test.
THEOREM LauncherOneMainUnlessBlind == Spec => []OneMainUnlessBlind
<1>1. IInv => OneMainUnlessBlind
  <2> SUFFICES ASSUME IInv, ~blind PROVE ~(Cardinality(Inside) > 1)
    BY DEF OneMainUnlessBlind
  <2>1. \A s, t \in Inside : s = t
    BY DEF IInv, OneAtATime
  <2>2. CASE Inside = {}
    BY <2>2, FS_EmptySet
  <2>3. CASE \E s \in Inside : TRUE
    <3>1. PICK s \in Inside : TRUE
      BY <2>3
    <3>2. Inside = {s}
      BY <2>1, <3>1
    <3>3. Cardinality(Inside) = 1
      BY <3>2, FS_Singleton, Zenon
    <3> QED
      BY <3>3
  <2> QED
    BY <2>2, <2>3
<1> QED
  BY LauncherInvariant, <1>1, PTL

\* A user who waits for each report is told each session's own code.
THEOREM LauncherReportsOwnCode == Spec => []ReportsOwnCode
<1>1. IInv => ReportsOwnCode
  BY DEF IInv
<1> QED
  BY LauncherInvariant, <1>1, PTL
=============================================================================
