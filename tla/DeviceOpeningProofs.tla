-------------------------- MODULE DeviceOpeningProofs --------------------------
(***************************************************************************)
(* DeviceOpening ends the process only for a reason, for any number of     *)
(* activities, returns, sessions and replugs.                              *)
(***************************************************************************)
EXTENDS DeviceOpening, TLAPS

\* The types of what the ends depend on.
Types ==
  /\ life \in [Activities -> {"unborn", "visible", "stopped", "destroyed"}]
  /\ command \in [Activities -> {"none", "start", "stop", "status"}]
  /\ conn \in [Activities -> {"none", "pending", "made"}]
  /\ mBound \in [Activities -> BOOLEAN]
  /\ inbox \in [Activities -> {"none", "granted", "refused"}]
  /\ sess \in [Sessions -> {"unborn", "starting", "running", "opened", "ended",
                             "over"}]
  /\ telling \in [Sessions -> Talk \cup {"none", "pending"}]
  /\ returns \in Nat /\ replugs \in Nat
  /\ dongle \in {"absent", "plugged", "permitted"}
  /\ force_root \in BOOLEAN

\* What did not start has asked for nothing, and receivers are those of
\* visible activities.
UnbornIsBlank ==
  \A a \in Activities :
    /\ life[a] = "unborn" => command[a] = "none" /\ conn[a] = "none"
                             /\ ~mBound[a]
    /\ inbox[a] # "none" => life[a] = "visible"

Asked(a) == command[a] = "start" /\ (mBound[a] \/ life[a] = "destroyed")

\* There is a session, or RtlAisJava.start is about to create one.
Begun ==
  \/ \E s \in Sessions : sess[s] # "unborn"
  \/ process \in {"start", "wait", "spawn"}

\* Without a return, a session was started for an activity that was connected
\* once, and is not connected again.
StartedForSomebody ==
  returns = 0 =>
    /\ Begun => \E a \in Activities : Asked(a)
    /\ \A a \in Activities :
         conn[a] = "pending" => ~mBound[a] /\ life[a] # "destroyed"

\* With or without one, somebody asked for it; and is_running and what is told
\* are those of sessions.
SessionsWereAsked ==
  /\ Begun => \E a \in Activities : command[a] = "start"
  /\ is_running => \E s \in Sessions : sess[s] # "unborn"
  /\ \A s \in Sessions : telling[s] # "none" => sess[s] # "unborn"

\* Only a dongle with permission leads to a connection.
ConnectedByPermission ==
  \A a \in Activities :
    conn[a] # "none" \/ mBound[a] =>
      force_root \/ dongle = "permitted" \/ replugs > 0

\* A visible activity that takes itself for bound is, or the user has returned
\* to it and the dongle was unplugged.
BoundUnlessReturned ==
  \A a \in Activities :
    life[a] = "visible" /\ mBound[a] /\ conn[a] = "none" =>
      returns > 0 /\ replugs > 0

\* The inductive invariant.
IInv ==
  /\ Types /\ UnbornIsBlank
  /\ StartedForSomebody /\ SessionsWereAsked
  /\ ConnectedByPermission /\ BoundUnlessReturned
  /\ EndsHaveCause

-----------------------------------------------------------------------------
(* Proofs.                                                                 *)

(* The steps, by what they are about. *)
StartStep == StartTests \/ StartAgain \/ Spawn

OtherStep ==
  \/ ServiceDestroyed
  \/ \E s \in Sessions : TellsNext(s) \/ ToldAll(s) \/ Torn(s)

SessStep(s) == SetRunning(s) \/ Opens(s) \/ Ends(s) \/ Closes(s)

\* The process ends, and why.
EndStep ==
  \/ process' = "null_connection" /\ Gone
  \/ process' = "exited" /\ Gone /\ process = "exiting"
  \/ /\ process' \in {"unfit_rates", "list_changed"} /\ Gone
     /\ \E s \in Sessions : sess[s] # "unborn" \/ telling[s] # "none"
  \/ /\ process' = "not_bound" /\ Gone
     /\ \E a \in Activities :
          life[a] = "visible" /\ mBound[a] /\ conn[a] = "none"

\* Every step of the specification is one of these.
LEMMA Steps ==
  [Next]_vars =>
    \/ \E a \in Activities :
         Start(a) \/ Receive(a) \/ Connected(a) \/ OnStop(a) \/ Destroy(a)
    \/ \E granted \in BOOLEAN : Permission(granted)
    \/ \E s \in Sessions : SessStep(s)
    \/ StartStep \/ OtherStep \/ Replug \/ UNCHANGED vars \/ EndStep
<1> SUFFICES ASSUME [Next]_vars, ~EndStep
             PROVE \/ \E a \in Activities :
                        Start(a) \/ Receive(a) \/ Connected(a) \/ OnStop(a)
                        \/ Destroy(a)
                   \/ \E granted \in BOOLEAN : Permission(granted)
                   \/ \E s \in Sessions : SessStep(s)
                   \/ StartStep \/ OtherStep \/ Replug \/ UNCHANGED vars
  OBVIOUS
<1>1. ~Exit
  BY DEF EndStep, Exit
<1>2. ~\E s \in Sessions : RatesDoNotFit(s)
  BY DEF EndStep, RatesDoNotFit
<1>3. ~\E s \in Sessions : PendingStrikes(s)
  BY DEF EndStep, PendingStrikes
<1> QED
  BY <1>1, <1>2, <1>3
     DEF Next, MainStep, User, SessionStep, LaterStep, SessStep, OtherStep,
         StartStep

\* startBinary.
Bind(a) == conn' = [conn EXCEPT ![a] = IF @ = "none" THEN "pending" ELSE @]

\* An activity binds to the service only if there is a dongle with permission,
\* or root access.
LEMMA VisitFacts ==
  ASSUME NEW a \in Activities, DoUSBBasic(a)
  PROVE  /\ process' = process
         /\ \/ Bind(a) /\ (force_root \/ dongle = "permitted")
            \/ conn' = conn /\ ~force_root /\ dongle # "permitted"
BY DEF DoUSBBasic, OpenDeviceUsingRoot, OpenDevice, NoConnection, StartBinary,
   Bind

\* What onStart does.
LEMMA StartFacts ==
  ASSUME Types, UnbornIsBlank, NEW a \in Activities, Start(a)
  PROVE  /\ process = "runs" /\ process' = "runs"
         /\ UNCHANGED <<mBound, dongle, replugs, inbox, force_root, sess,
                        is_running, telling>>
         /\ life' = [life EXCEPT ![a] = "visible"]
         /\ command' \in [Activities -> {"none", "start", "stop", "status"}]
         /\ \A b \in Activities : command[b] = "start" => command'[b] = "start"
         /\ \/ Bind(a) /\ (force_root \/ dongle = "permitted")
            \/ conn' = conn /\ ~force_root /\ dongle # "permitted"
         /\ \/ returns' = returns /\ ~mBound[a]
            \/ returns' = returns + 1
         /\ life[a] \in {"unborn", "stopped"}
<1>1. /\ process' = process
      /\ \/ Bind(a) /\ (force_root \/ dongle = "permitted")
         \/ conn' = conn /\ ~force_root /\ dongle # "permitted"
  BY VisitFacts DEF Start
<1>2. /\ process = "runs"
      /\ UNCHANGED <<mBound, dongle, replugs, inbox, force_root, sess,
                        is_running, telling>>
      /\ life' = [life EXCEPT ![a] = "visible"]
  BY DEF Start, Free, sessionVars
<1>3. CASE /\ life[a] = "unborn" /\ UNCHANGED returns
           /\ \E cmd \in {"start", "stop", "status"} :
                command' = [command EXCEPT ![a] = cmd]
  <2>1. command[a] = "none" /\ ~mBound[a]
    BY <1>3 DEF UnbornIsBlank
  <2>2. PICK cmd \in {"start", "stop", "status"} :
          command' = [command EXCEPT ![a] = cmd]
    BY <1>3
  <2>3. /\ command' \in [Activities -> {"none", "start", "stop", "status"}]
        /\ \A b \in Activities : command[b] = "start" => command'[b] = "start"
    BY <2>1, <2>2 DEF Types
  <2> QED
    BY <1>1, <1>2, <1>3, <2>1, <2>3
<1>4. CASE life[a] = "stopped" /\ returns' = returns + 1 /\ UNCHANGED command
  BY <1>1, <1>2, <1>4 DEF Types
<1> QED
  BY <1>3, <1>4 DEF Start

\* What the answer about the permission does.
LEMMA ReceiveFacts ==
  ASSUME UnbornIsBlank, NEW a \in Activities, Receive(a)
  PROVE  \/ EndStep
         \/ /\ process = "runs" /\ process' = "runs"
            /\ UNCHANGED <<life, command, returns, mBound, dongle, replugs,
                           force_root, sess, is_running, telling>>
            /\ inbox' = [inbox EXCEPT ![a] = "none"]
            /\ life[a] = "visible"
            /\ (Bind(a) /\ dongle = "permitted") \/ conn' = conn
BY DEF Receive, Free, UnbornIsBlank, OpenDevice, StartBinary, EndStep,
   sessionVars, Bind

\* What a connection does.
LEMMA ConnectedFacts ==
  ASSUME NEW a \in Activities, Connected(a)
  PROVE  /\ process = "runs" /\ conn[a] = "pending"
         /\ UNCHANGED <<life, command, returns, dongle, replugs, inbox,
                        force_root, sess, is_running, telling>>
         /\ conn' = [conn EXCEPT ![a] = "made"]
         /\ mBound' = [mBound EXCEPT ![a] = TRUE]
         /\ \/ process' = "runs"
            \/ process' = "exiting" /\ command[a] = "stop"
            \/ process' = "exiting" /\ command[a] = "start" /\ is_running
            \/ process' = "start" /\ command[a] = "start"
<1>1. /\ process = "runs" /\ conn[a] = "pending"
      /\ UNCHANGED <<life, command, returns, dongle, replugs, inbox,
                     force_root, is_running, telling>>
      /\ conn' = [conn EXCEPT ![a] = "made"]
      /\ mBound' = [mBound EXCEPT ![a] = TRUE]
  BY DEF Connected, Free, usbVars
<1>2. CASE Status(a, exception_listeners \cup {a})
  BY <1>1, <1>2 DEF Status
<1>3. CASE command[a] = "stop" /\ Stop(a)
  BY <1>1, <1>3 DEF Stop
<1>4. CASE command[a] = "start" /\ StopRunning(a, exception_listeners \cup {a})
  BY <1>1, <1>4 DEF StopRunning
<1>5. CASE command[a] = "start" /\ StartNew(a)
  BY <1>1, <1>5 DEF StartNew
<1> QED
  BY <1>2, <1>3, <1>4, <1>5 DEF Connected

\* What RtlAisJava.start does.
LEMMA StartStepFacts ==
  ASSUME StartStep
  PROVE  /\ process \in {"start", "wait", "spawn"}
         /\ process' \in {"wait", "spawn", "runs"}
         /\ UNCHANGED <<life, command, returns, conn, mBound, dongle, replugs,
                        inbox, force_root, is_running, telling>>
         /\ sess' = sess \/ \E s \in Sessions :
                              sess' = [sess EXCEPT ![s] = "starting"]
BY DEF StartStep, StartTests, StartAgain, Spawn, activityVars, usbVars,
   sessionVars

\* What a session does by itself.
LEMMA SessFacts ==
  ASSUME Types, NEW s \in Sessions, SessStep(s)
  PROVE  /\ UNCHANGED <<life, command, returns, conn, mBound, dongle, replugs,
                        inbox, force_root, process>>
         /\ sess[s] # "unborn"
         /\ sess' \in [Sessions -> {"unborn", "starting", "running", "opened",
                                    "ended", "over"}]
         /\ telling' \in [Sessions -> Talk \cup {"none", "pending"}]
         /\ \A t \in Sessions \ {s} :
              sess'[t] = sess[t] /\ telling'[t] = telling[t]
         /\ sess'[s] # "unborn"
<1>1. CASE SetRunning(s)
  BY <1>1 DEF SetRunning, activityVars, usbVars, Types
<1>2. CASE Opens(s)
  BY <1>2 DEF Opens, BeginsToTell, activityVars, usbVars, Types, Talk
<1>3. CASE Ends(s)
  BY <1>3 DEF Ends, activityVars, usbVars, Types
<1>4. CASE Closes(s)
  BY <1>4 DEF Closes, BeginsToTell, activityVars, usbVars, Types, Talk
<1> QED
  BY <1>1, <1>2, <1>3, <1>4 DEF SessStep

\* What leaving does.
LEMMA OnStopFacts ==
  ASSUME NEW a \in Activities, OnStop(a)
  PROVE  \/ EndStep
         \/ /\ process = "runs" /\ process' = "runs" /\ life[a] = "visible"
            /\ UNCHANGED <<command, returns, mBound, dongle, replugs,
                           force_root, sess, is_running, telling>>
            /\ life' = [life EXCEPT ![a] = "stopped"]
            /\ inbox' = [inbox EXCEPT ![a] = "none"]
            /\ \/ conn' = [conn EXCEPT ![a] = "none"] /\ mBound[a]
               \/ conn' = conn /\ ~mBound[a]
BY DEF OnStop, Leaves, Free, EndStep

\* What the remaining steps leave alone.
LEMMA OtherFacts ==
  ASSUME Types, OtherStep \/ UNCHANGED vars
  PROVE  \/ EndStep
         \/ /\ UNCHANGED <<life, command, returns, conn, mBound, dongle,
                           replugs, inbox, force_root, sess, is_running,
                           process>>
            /\ telling' \in [Sessions -> Talk \cup {"none", "pending"}]
            /\ \A t \in Sessions :
                 telling'[t] # "none" => telling[t] # "none"
<1> USE DEF Types, activityVars, usbVars, sessionVars, vars
<1>1. CASE ServiceDestroyed \/ UNCHANGED vars
  BY <1>1 DEF ServiceDestroyed
<1>2. ASSUME NEW s \in Sessions, TellsNext(s)
      PROVE  /\ UNCHANGED <<life, command, returns, conn, mBound, dongle,
                            replugs, inbox, force_root, sess, is_running,
                            process>>
             /\ telling' = telling
  BY <1>2 DEF TellsNext
<1>3. ASSUME NEW s \in Sessions, ToldAll(s)
      PROVE  /\ UNCHANGED <<life, command, returns, conn, mBound, dongle,
                            replugs, inbox, force_root, sess, is_running,
                            process>>
             /\ telling' = [telling EXCEPT ![s] = "none"]
  BY <1>3 DEF ToldAll
<1>4. ASSUME NEW s \in Sessions, Torn(s)
      PROVE  \/ EndStep
             \/ /\ UNCHANGED <<life, command, returns, conn, mBound, dongle,
                               replugs, inbox, force_root, sess, is_running,
                               process>>
                /\ telling' = [telling EXCEPT ![s] = "pending"]
                /\ telling[s] = "opened"
  BY <1>4 DEF Torn, EndStep
<1> QED
  BY <1>1, <1>2, <1>3, <1>4 DEF OtherStep

\* What is left when the process has ended.
LEMMA EndFacts ==
  ASSUME EndStep
  PROVE  /\ UNCHANGED <<life, command, returns, dongle, replugs, force_root>>
         /\ conn' = [a \in Activities |-> "none"]
         /\ mBound' = [a \in Activities |-> FALSE]
         /\ inbox' = [a \in Activities |-> "none"]
         /\ sess' = [s \in Sessions |-> "unborn"] /\ is_running' = FALSE
         /\ telling' = [s \in Sessions |-> "none"]
         /\ process' \in {"null_connection", "exited", "unfit_rates",
                          "list_changed", "not_bound"}
BY DEF EndStep, Gone

\* All but the causes is then as at the start.
LEMMA EndKeeps ==
  ASSUME Types, UnbornIsBlank, EndStep
  PROVE  Types' /\ UnbornIsBlank' /\ StartedForSomebody' /\ SessionsWereAsked'
         /\ ConnectedByPermission' /\ BoundUnlessReturned'
<1> USE EndFacts
<1>1. Types' /\ UnbornIsBlank'
  <2>1. /\ UNCHANGED <<life, command, returns, dongle, replugs, force_root>>
        /\ life' \in [Activities ->
                       {"unborn", "visible", "stopped", "destroyed"}]
        /\ command' \in [Activities -> {"none", "start", "stop", "status"}]
        /\ returns' \in Nat /\ replugs' \in Nat /\ force_root' \in BOOLEAN
        /\ dongle' \in {"absent", "plugged", "permitted"}
    BY DEF Types
  <2>2. /\ conn' = [a \in Activities |-> "none"]
        /\ mBound' = [a \in Activities |-> FALSE]
        /\ inbox' = [a \in Activities |-> "none"]
    OBVIOUS
  <2>3. /\ sess' = [s \in Sessions |-> "unborn"]
        /\ telling' = [s \in Sessions |-> "none"]
    OBVIOUS
  <2>4. Types'
    BY ONLY <2>1, <2>2, <2>3 DEF Types
  <2>5. UnbornIsBlank'
    BY <2>1, <2>2 DEF UnbornIsBlank
  <2> QED
    BY <2>4, <2>5
<1>2. ~Begun'
  BY DEF Begun
<1>3. StartedForSomebody' /\ SessionsWereAsked'
  BY <1>2 DEF StartedForSomebody, SessionsWereAsked
<1>4. ConnectedByPermission' /\ BoundUnlessReturned'
  BY DEF ConnectedByPermission, BoundUnlessReturned
<1> QED
  BY <1>1, <1>3, <1>4

\* The types are preserved.
LEMMA TypesKept == Types /\ UnbornIsBlank /\ [Next]_vars => Types'
<1> SUFFICES ASSUME Types, UnbornIsBlank, [Next]_vars PROVE Types'
  OBVIOUS
<1>1. ASSUME NEW a \in Activities, Start(a) PROVE Types'
  BY <1>1, StartFacts DEF Types, Bind
<1>2. ASSUME NEW a \in Activities, Receive(a) PROVE Types'
  <2>1. CASE /\ UNCHANGED <<life, command, returns, mBound, dongle, replugs,
                            force_root, sess, telling>>
             /\ inbox' = [inbox EXCEPT ![a] = "none"]
             /\ conn' = conn \/ Bind(a)
    BY <2>1 DEF Types, Bind
  <2> QED
    BY <1>2, <2>1, ReceiveFacts, EndKeeps
<1>3. ASSUME NEW a \in Activities, Connected(a) PROVE Types'
  <2>1. /\ UNCHANGED <<life, command, returns, dongle, replugs, inbox,
                       force_root, sess, telling>>
        /\ conn' = [conn EXCEPT ![a] = "made"]
        /\ mBound' = [mBound EXCEPT ![a] = TRUE]
    BY <1>3, ConnectedFacts
  <2> QED
    BY <2>1 DEF Types
<1>4. ASSUME NEW a \in Activities, OnStop(a) PROVE Types'
  <2>1. CASE /\ UNCHANGED <<command, returns, mBound, dongle, replugs,
                            force_root, sess, telling>>
             /\ life' = [life EXCEPT ![a] = "stopped"]
             /\ inbox' = [inbox EXCEPT ![a] = "none"]
             /\ conn' \in {conn, [conn EXCEPT ![a] = "none"]}
    BY <2>1 DEF Types
  <2> QED
    BY <1>4, <2>1, OnStopFacts, EndKeeps
<1>5. ASSUME NEW a \in Activities, Destroy(a) PROVE Types'
  BY <1>5 DEF Destroy, Types, usbVars, sessionVars
<1>6. ASSUME NEW granted \in BOOLEAN, Permission(granted) PROVE Types'
  BY <1>6 DEF Permission, Types, activityVars, sessionVars
<1>7. ASSUME NEW s \in Sessions, SessStep(s) PROVE Types'
  BY <1>7, SessFacts DEF Types
<1>8. CASE OtherStep \/ UNCHANGED vars
  <2>1. CASE /\ UNCHANGED <<life, command, returns, conn, mBound, dongle,
                            replugs, inbox, force_root, sess>>
             /\ telling' \in [Sessions -> Talk \cup {"none", "pending"}]
    BY <2>1 DEF Types
  <2> QED
    BY <1>8, <2>1, OtherFacts, EndKeeps
<1>9. CASE Replug
  BY <1>9 DEF Replug, Types, activityVars, sessionVars
<1>10. CASE StartStep
  BY <1>10, StartStepFacts DEF Types
<1>11. CASE EndStep
  BY <1>11, EndKeeps
<1> QED
  BY <1>1, <1>2, <1>3, <1>4, <1>5, <1>6, <1>7, <1>8, <1>9, <1>10, <1>11, Steps

\* Activities and their receivers stay in order.
LEMMA UnbornIsBlankKept ==
  Types /\ UnbornIsBlank /\ [Next]_vars => UnbornIsBlank'
<1> SUFFICES ASSUME Types, UnbornIsBlank, [Next]_vars
             PROVE  UnbornIsBlank'
  OBVIOUS
<1>1. ASSUME NEW a \in Activities, Start(a) PROVE UnbornIsBlank'
  <2>1. /\ \A b \in Activities \ {a} :
             life'[b] = life[b] /\ conn'[b] = conn[b]
             /\ command'[b] = command[b]
        /\ life'[a] = "visible" /\ UNCHANGED <<mBound, inbox>>
    <3>1. \A b \in Activities \ {a} : command'[b] = command[b]
      BY <1>1 DEF Start, Types
    <3> QED
      BY <1>1, <3>1, StartFacts DEF Types, Bind
  <2> QED
    BY <2>1 DEF UnbornIsBlank
<1>2. ASSUME NEW a \in Activities, Receive(a), ~EndStep PROVE UnbornIsBlank'
  <2>1. /\ life[a] = "visible" /\ life' = life /\ command' = command
        /\ mBound' = mBound /\ inbox' = [inbox EXCEPT ![a] = "none"]
        /\ Bind(a) \/ conn' = conn
    BY <1>2, ReceiveFacts
  <2>2. \A b \in Activities \ {a} :
          conn'[b] = conn[b] /\ inbox'[b] = inbox[b]
    BY <2>1 DEF Types, Bind
  <2> QED
    BY <2>1, <2>2 DEF UnbornIsBlank
<1>3. ASSUME NEW a \in Activities, Connected(a) PROVE UnbornIsBlank'
  BY <1>3, ConnectedFacts DEF UnbornIsBlank, Types
<1>4. ASSUME NEW a \in Activities, OnStop(a), ~EndStep PROVE UnbornIsBlank'
  <2>1. /\ command' = command /\ mBound' = mBound
        /\ life' = [life EXCEPT ![a] = "stopped"]
        /\ inbox' = [inbox EXCEPT ![a] = "none"]
        /\ conn' = [conn EXCEPT ![a] = "none"] \/ conn' = conn
    BY <1>4, OnStopFacts
  <2>2. /\ \A b \in Activities \ {a} : /\ conn'[b] = conn[b]
                                       /\ inbox'[b] = inbox[b]
                                       /\ life'[b] = life[b]
        /\ life'[a] = "stopped" /\ inbox'[a] = "none"
    BY <2>1 DEF Types
  <2> QED
    BY <2>1, <2>2 DEF UnbornIsBlank
<1>5. ASSUME NEW a \in Activities, Destroy(a) PROVE UnbornIsBlank'
  <2>1. inbox[a] = "none"
    BY <1>5 DEF Destroy, UnbornIsBlank, Types
  <2> QED
    BY <1>5, <2>1 DEF Destroy, UnbornIsBlank, Types, usbVars
<1>6. ASSUME NEW granted \in BOOLEAN, Permission(granted) PROVE UnbornIsBlank'
  BY <1>6 DEF Permission, Types, activityVars, sessionVars, UnbornIsBlank
<1>7. ASSUME NEW s \in Sessions, SessStep(s) PROVE UnbornIsBlank'
  BY <1>7, SessFacts DEF UnbornIsBlank
<1>8. CASE ~EndStep /\ (OtherStep \/ UNCHANGED vars)
  BY <1>8, OtherFacts DEF UnbornIsBlank
<1>9. CASE Replug
  BY <1>9 DEF Replug, activityVars, sessionVars, UnbornIsBlank
<1>10. CASE StartStep
  BY <1>10, StartStepFacts DEF UnbornIsBlank
<1>11. CASE EndStep
  BY <1>11, EndKeeps
<1> QED
  BY <1>1, <1>2, <1>3, <1>4, <1>5, <1>6, <1>7, <1>8, <1>9, <1>10,
     <1>11, Steps

\* A session was started for somebody.
LEMMA StartedForSomebodyKept ==
  Types /\ UnbornIsBlank /\ BoundUnlessReturned /\ StartedForSomebody
    /\ [Next]_vars
    => StartedForSomebody'
<1> SUFFICES ASSUME Types, UnbornIsBlank, BoundUnlessReturned,
                     StartedForSomebody, [Next]_vars
             PROVE  StartedForSomebody'
  OBVIOUS
<1>1. ASSUME NEW a \in Activities, Start(a) PROVE StartedForSomebody'
  <2> SUFFICES ASSUME returns' = 0 PROVE StartedForSomebody'
    BY DEF StartedForSomebody
  <2>1. /\ returns = 0 /\ ~mBound[a] /\ life[a] # "destroyed"
        /\ life'[a] = "visible" /\ UNCHANGED <<mBound, sess, process>>
        /\ \A b \in Activities \ {a} :
             conn'[b] = conn[b] /\ life'[b] = life[b]
        /\ \A b \in Activities : command[b] = "start" => command'[b] = "start"
    BY <1>1, StartFacts DEF Types, Bind
  <2>2. \A b \in Activities : Asked(b) => Asked(b)'
    BY <2>1 DEF Asked
  <2> QED
    BY <2>1, <2>2 DEF StartedForSomebody, Begun
<1>2. ASSUME NEW a \in Activities, Receive(a), ~EndStep
      PROVE  StartedForSomebody'
  <2>1. /\ UNCHANGED <<life, command, returns, mBound, sess, process>>
        /\ life[a] = "visible" /\ (Bind(a) \/ conn' = conn)
    BY <1>2, ReceiveFacts
  <2>2. \A b \in Activities : Asked(b) => Asked(b)'
    BY <2>1 DEF Asked
  <2>3. ASSUME returns = 0, NEW b \in Activities, conn'[b] = "pending"
        PROVE  ~mBound[b] /\ life[b] # "destroyed"
    <3>1. CASE conn[b] = "pending"
      BY <2>3, <3>1 DEF StartedForSomebody
    <3>2. CASE conn[b] # "pending"
      <4>1. b = a /\ conn[a] = "none"
        BY <2>1, <2>3, <3>2 DEF Bind, Types
      <4> QED
        BY <2>1, <2>3, <4>1 DEF BoundUnlessReturned, Types
    <3> QED
      BY <3>1, <3>2
  <2> QED
    BY <2>1, <2>2, <2>3 DEF StartedForSomebody, Begun
<1>3. ASSUME NEW a \in Activities, Connected(a) PROVE StartedForSomebody'
  <2>1. /\ UNCHANGED <<life, command, returns>>
        /\ conn' = [conn EXCEPT ![a] = "made"]
        /\ mBound' = [mBound EXCEPT ![a] = TRUE]
        /\ sess' = sess
        /\ process' \in {"start", "wait", "spawn"} => command[a] = "start"
    BY <1>3, ConnectedFacts
  <2>2. \A b \in Activities : Asked(b) => Asked(b)'
    BY <2>1 DEF Asked, Types
  <2>3. command[a] = "start" => Asked(a)'
    BY <2>1 DEF Asked, Types
  <2>4. \A b \in Activities :
          conn'[b] = "pending" => conn[b] = "pending" /\ mBound'[b] = mBound[b]
    BY <2>1 DEF Types
  <2>5. Begun' => command[a] = "start" \/ Begun
    BY <2>1 DEF Begun
  <2>6. life' = life /\ returns' = returns
    BY <2>1
  <2> QED
    BY <2>2, <2>3, <2>4, <2>5, <2>6 DEF StartedForSomebody
<1>4. ASSUME NEW a \in Activities, OnStop(a), ~EndStep
      PROVE  StartedForSomebody'
  <2>1. /\ UNCHANGED <<command, returns, mBound, sess, process>>
        /\ life[a] = "visible" /\ life' = [life EXCEPT ![a] = "stopped"]
        /\ conn' = [conn EXCEPT ![a] = "none"] \/ conn' = conn
    BY <1>4, OnStopFacts
  <2>2. \A b \in Activities : Asked(b) => Asked(b)'
    BY <2>1 DEF Asked, Types
  <2>3. \A b \in Activities : conn'[b] = "pending" =>
          conn[b] = "pending"
          /\ (life[b] # "destroyed" => life'[b] # "destroyed")
    BY <2>1 DEF Types
  <2> QED
    BY <2>1, <2>2, <2>3 DEF StartedForSomebody, Begun
<1>5. ASSUME NEW a \in Activities, Destroy(a) PROVE StartedForSomebody'
  <2>1. /\ UNCHANGED <<command, returns, sess, process>>
        /\ life' = [life EXCEPT ![a] = "destroyed"]
        /\ conn' = [conn EXCEPT ![a] = "none"]
        /\ mBound' = [mBound EXCEPT ![a] = FALSE]
    BY <1>5 DEF Destroy, sessionVars
  <2>2. \A b \in Activities : Asked(b) => Asked(b)'
    BY <2>1 DEF Asked, Types
  <2>3. \A b \in Activities :
          conn'[b] = "pending" => conn[b] = "pending" /\ b # a
    BY <2>1 DEF Types
  <2>4. \A b \in Activities \ {a} :
          mBound'[b] = mBound[b] /\ life'[b] = life[b]
    BY <2>1 DEF Types
  <2> QED
    BY <2>1, <2>2, <2>3, <2>4 DEF StartedForSomebody, Begun
<1>6. ASSUME NEW granted \in BOOLEAN, Permission(granted)
      PROVE  StartedForSomebody'
  BY <1>6 DEF Permission, StartedForSomebody, Asked, Begun, activityVars,
              sessionVars
<1>7. ASSUME NEW s \in Sessions, SessStep(s) PROVE StartedForSomebody'
  <2>1. /\ UNCHANGED <<life, command, returns, conn, mBound>>
        /\ Begun
    BY <1>7, SessFacts DEF Begun
  <2> QED
    BY <2>1 DEF StartedForSomebody, Asked
<1>8. CASE ~EndStep /\ (OtherStep \/ UNCHANGED vars)
  BY <1>8, OtherFacts DEF StartedForSomebody, Asked, Begun
<1>9. CASE Replug
  BY <1>9 DEF Replug, StartedForSomebody, Asked, Begun, activityVars,
              sessionVars
<1>10. CASE StartStep
  BY <1>10, StartStepFacts DEF StartedForSomebody, Asked, Begun
<1>11. CASE EndStep
  BY <1>11, EndKeeps
<1> QED
  BY <1>1, <1>2, <1>3, <1>4, <1>5, <1>6, <1>7, <1>8, <1>9, <1>10, <1>11, Steps

\* Sessions were asked for.
LEMMA SessionsWereAskedKept ==
  Types /\ UnbornIsBlank /\ SessionsWereAsked /\ [Next]_vars
    => SessionsWereAsked'
<1> SUFFICES ASSUME Types, UnbornIsBlank, SessionsWereAsked, [Next]_vars
             PROVE  SessionsWereAsked'
  OBVIOUS
<1> USE DEF SessionsWereAsked, Begun
<1>1. ASSUME NEW a \in Activities, Start(a) PROVE SessionsWereAsked'
  BY <1>1, StartFacts
<1>2. ASSUME NEW a \in Activities, Receive(a), ~EndStep PROVE SessionsWereAsked'
  BY <1>2, ReceiveFacts
<1>3. ASSUME NEW a \in Activities, Connected(a) PROVE SessionsWereAsked'
  BY <1>3, ConnectedFacts
<1>4. ASSUME NEW a \in Activities, OnStop(a), ~EndStep PROVE SessionsWereAsked'
  BY <1>4, OnStopFacts
<1>5. ASSUME NEW a \in Activities, Destroy(a) PROVE SessionsWereAsked'
  BY <1>5 DEF Destroy, sessionVars
<1>6. ASSUME NEW granted \in BOOLEAN, Permission(granted)
      PROVE  SessionsWereAsked'
  BY <1>6 DEF Permission, activityVars, sessionVars
<1>7. ASSUME NEW s \in Sessions, SessStep(s) PROVE SessionsWereAsked'
  BY <1>7, SessFacts
<1>8. CASE ~EndStep /\ (OtherStep \/ UNCHANGED vars)
  BY <1>8, OtherFacts
<1>9. CASE Replug
  BY <1>9 DEF Replug, activityVars, sessionVars
<1>10. CASE StartStep
  BY <1>10, StartStepFacts DEF Types
<1>11. CASE EndStep
  BY <1>11, EndKeeps
<1> QED
  BY <1>1, <1>2, <1>3, <1>4, <1>5, <1>6, <1>7, <1>8, <1>9, <1>10, <1>11, Steps

\* The dongle stays the reason for a connection.
LEMMA ConnectedByPermissionKept ==
  Types /\ UnbornIsBlank /\ ConnectedByPermission /\ [Next]_vars
    => ConnectedByPermission'
<1> SUFFICES ASSUME Types, UnbornIsBlank, ConnectedByPermission, [Next]_vars
             PROVE  ConnectedByPermission'
  OBVIOUS
<1>1. ASSUME NEW a \in Activities, Start(a) PROVE ConnectedByPermission'
  <2>1. /\ UNCHANGED <<mBound, dongle, replugs, force_root>>
        /\ \A b \in Activities : conn'[b] # "none" =>
             conn[b] # "none" \/ force_root \/ dongle = "permitted"
    BY <1>1, StartFacts DEF Types, Bind
  <2> QED
    BY <2>1 DEF ConnectedByPermission
<1>2. ASSUME NEW a \in Activities, Receive(a), ~EndStep
      PROVE  ConnectedByPermission'
  <2>1. /\ UNCHANGED <<mBound, dongle, replugs, force_root>>
        /\ \A b \in Activities : conn'[b] # "none" =>
             conn[b] # "none" \/ dongle = "permitted"
    BY <1>2, ReceiveFacts DEF Types, Bind
  <2> QED
    BY <2>1 DEF ConnectedByPermission
<1>3. ASSUME NEW a \in Activities, Connected(a) PROVE ConnectedByPermission'
  <2>1. /\ UNCHANGED <<dongle, replugs, force_root>> /\ conn[a] = "pending"
        /\ \A b \in Activities \ {a} :
             conn'[b] = conn[b] /\ mBound'[b] = mBound[b]
    BY <1>3, ConnectedFacts DEF Types
  <2> QED
    BY <2>1 DEF ConnectedByPermission
<1>4. ASSUME NEW a \in Activities, OnStop(a), ~EndStep
      PROVE  ConnectedByPermission'
  <2>1. /\ conn' = [conn EXCEPT ![a] = "none"] \/ conn' = conn
        /\ mBound' = mBound /\ dongle' = dongle /\ replugs' = replugs
        /\ force_root' = force_root
    BY <1>4, OnStopFacts
  <2>2. \A b \in Activities : conn'[b] # "none" => conn[b] # "none"
    BY <2>1 DEF Types
  <2> QED
    BY <2>1, <2>2 DEF ConnectedByPermission
<1>5. ASSUME NEW a \in Activities, Destroy(a) PROVE ConnectedByPermission'
  BY <1>5 DEF Destroy, ConnectedByPermission, Types, usbVars
<1>6. ASSUME NEW granted \in BOOLEAN, Permission(granted)
      PROVE  ConnectedByPermission'
  BY <1>6 DEF Permission, ConnectedByPermission, activityVars
<1>7. ASSUME NEW s \in Sessions, SessStep(s) PROVE ConnectedByPermission'
  BY <1>7, SessFacts DEF ConnectedByPermission
<1>8. CASE ~EndStep /\ (OtherStep \/ UNCHANGED vars)
  <2>1. /\ conn' = conn /\ mBound' = mBound /\ dongle' = dongle
        /\ replugs' = replugs /\ force_root' = force_root
    BY <1>8, OtherFacts
  <2> QED
    BY <2>1 DEF ConnectedByPermission
<1>9. CASE Replug
  <2>1. /\ conn' = conn /\ mBound' = mBound /\ force_root' = force_root
        /\ replugs > 0 => replugs' > 0
        /\ dongle' = dongle \/ dongle # "permitted" \/ replugs' > 0
    BY <1>9 DEF Replug, activityVars, Types
  <2> QED
    BY <2>1 DEF ConnectedByPermission
<1>10. CASE StartStep
  BY <1>10, StartStepFacts DEF ConnectedByPermission
<1>11. CASE EndStep
  BY <1>11, EndKeeps
<1> QED
  BY <1>1, <1>2, <1>3, <1>4, <1>5, <1>6, <1>7, <1>8, <1>9, <1>10, <1>11, Steps

\* Only a return leaves an activity bound that is not.
LEMMA BoundUnlessReturnedKept ==
  Types /\ UnbornIsBlank /\ ConnectedByPermission /\ BoundUnlessReturned
    /\ [Next]_vars
    => BoundUnlessReturned'
<1> SUFFICES ASSUME Types, UnbornIsBlank, ConnectedByPermission,
                     BoundUnlessReturned, [Next]_vars
             PROVE  BoundUnlessReturned'
  OBVIOUS
<1>1. ASSUME NEW a \in Activities, Start(a) PROVE BoundUnlessReturned'
  <2>1. /\ UNCHANGED <<mBound, replugs>>
        /\ \A b \in Activities \ {a} : life'[b] = life[b] /\ conn'[b] = conn[b]
        /\ returns > 0 => returns' > 0
        /\ mBound[a] => returns' > 0
        /\ conn'[a] = "none" => ~force_root /\ dongle # "permitted"
    BY <1>1, StartFacts DEF Types, Bind
  <2>2. mBound[a] /\ conn'[a] = "none" => replugs > 0
    BY <2>1 DEF ConnectedByPermission
  <2> QED
    BY <2>1, <2>2 DEF BoundUnlessReturned
<1>2. ASSUME NEW a \in Activities, Receive(a), ~EndStep
      PROVE  BoundUnlessReturned'
  <2>1. /\ \A b \in Activities : conn'[b] = "none" => conn[b] = "none"
        /\ life' = life /\ mBound' = mBound /\ returns' = returns
        /\ replugs' = replugs
    BY <1>2, ReceiveFacts, ZenonT(60) DEF Types, Bind
  <2> QED
    BY <2>1 DEF BoundUnlessReturned
<1>3. ASSUME NEW a \in Activities, Connected(a) PROVE BoundUnlessReturned'
  BY <1>3, ConnectedFacts DEF BoundUnlessReturned, Types
<1>4. ASSUME NEW a \in Activities, OnStop(a), ~EndStep
      PROVE  BoundUnlessReturned'
  <2>1. /\ mBound' = mBound /\ returns' = returns /\ replugs' = replugs
        /\ life' = [life EXCEPT ![a] = "stopped"]
        /\ conn' = [conn EXCEPT ![a] = "none"] \/ conn' = conn
    BY <1>4, OnStopFacts
  <2>2. /\ \A b \in Activities \ {a} :
             conn'[b] = conn[b] /\ life'[b] = life[b]
        /\ life'[a] = "stopped"
    BY <2>1 DEF Types
  <2> QED
    BY <2>1, <2>2 DEF BoundUnlessReturned
<1>5. ASSUME NEW a \in Activities, Destroy(a) PROVE BoundUnlessReturned'
  BY <1>5 DEF Destroy, BoundUnlessReturned, Types, usbVars
<1>6. ASSUME NEW granted \in BOOLEAN, Permission(granted)
      PROVE  BoundUnlessReturned'
  BY <1>6 DEF Permission, BoundUnlessReturned, activityVars
<1>7. ASSUME NEW s \in Sessions, SessStep(s) PROVE BoundUnlessReturned'
  BY <1>7, SessFacts DEF BoundUnlessReturned
<1>8. CASE ~EndStep /\ (OtherStep \/ UNCHANGED vars)
  BY <1>8, OtherFacts DEF BoundUnlessReturned
<1>9. CASE Replug
  <2>1. /\ life' = life /\ conn' = conn /\ mBound' = mBound
        /\ returns' = returns
        /\ replugs > 0 => replugs' > 0
    BY <1>9 DEF Replug, activityVars, Types
  <2> QED
    BY <2>1 DEF BoundUnlessReturned
<1>10. CASE StartStep
  BY <1>10, StartStepFacts DEF BoundUnlessReturned
<1>11. CASE EndStep
  BY <1>11, EndKeeps
<1> QED
  BY <1>1, <1>2, <1>3, <1>4, <1>5, <1>6, <1>7, <1>8, <1>9, <1>10, <1>11, Steps

\* The process ends for a reason.
LEMMA EndsHaveCauseKept == IInv /\ [Next]_vars => EndsHaveCause'
<1> SUFFICES ASSUME IInv, [Next]_vars
             PROVE  EndsHaveCause'
  OBVIOUS
<1>1. ASSUME NEW a \in Activities, Start(a) PROVE EndsHaveCause'
  BY <1>1, StartFacts DEF IInv, EndsHaveCause
<1>2. ASSUME NEW a \in Activities, Receive(a), ~EndStep PROVE EndsHaveCause'
  BY <1>2, ReceiveFacts DEF IInv, EndsHaveCause
<1>3. ASSUME NEW a \in Activities, Connected(a) PROVE EndsHaveCause'
  <2>1. /\ process = "runs" /\ conn[a] = "pending"
        /\ UNCHANGED <<command, returns, replugs>>
        /\ \/ process' \in {"runs", "start"}
           \/ process' = "exiting" /\ command[a] = "stop"
           \/ process' = "exiting" /\ command[a] = "start" /\ is_running
    BY <1>3, ConnectedFacts DEF IInv
  <2>2. ASSUME command[a] = "start", is_running, returns = 0
        PROVE  \E b, c \in Activities :
                 b # c /\ {command[b], command[c]} = {"start"}
    <3>1. Begun
      BY <2>2 DEF IInv, SessionsWereAsked, Begun
    <3>2. PICK b \in Activities : Asked(b)
      BY <2>2, <3>1 DEF IInv, StartedForSomebody
    <3>3. b # a
      BY <2>1, <2>2, <3>2 DEF IInv, StartedForSomebody, Asked
    <3> QED
      BY <2>2, <3>2, <3>3 DEF Asked
  <2>3. returns = 0 \/ returns > 0
    BY DEF IInv, Types
  <2> QED
    BY <2>1, <2>2, <2>3 DEF EndsHaveCause
<1>4. ASSUME NEW a \in Activities, OnStop(a), ~EndStep PROVE EndsHaveCause'
  BY <1>4, OnStopFacts DEF IInv, EndsHaveCause
<1>5. ASSUME NEW a \in Activities, Destroy(a) PROVE EndsHaveCause'
  BY <1>5 DEF IInv, Destroy, EndsHaveCause, usbVars
<1>6. ASSUME NEW granted \in BOOLEAN, Permission(granted) PROVE EndsHaveCause'
  BY <1>6 DEF IInv, Permission, EndsHaveCause, activityVars
<1>7. ASSUME NEW s \in Sessions, SessStep(s) PROVE EndsHaveCause'
  <2>1. UNCHANGED <<command, returns, replugs, process>>
    BY <1>7, SessFacts DEF IInv
  <2> QED
    BY <2>1 DEF IInv, EndsHaveCause
<1>8. CASE ~EndStep /\ (OtherStep \/ UNCHANGED vars)
  <2>1. UNCHANGED <<command, returns, replugs, process>>
    BY <1>8, OtherFacts DEF IInv
  <2> QED
    BY <2>1 DEF IInv, EndsHaveCause
<1>9. CASE Replug
  <2>1. UNCHANGED <<command, returns, process>> /\ process = "runs"
    BY <1>9 DEF Replug, Free, activityVars
  <2> QED
    BY <2>1 DEF EndsHaveCause
<1>10. CASE StartStep
  BY <1>10, StartStepFacts DEF EndsHaveCause
<1>11. CASE EndStep
  <2>1. UNCHANGED <<command, returns, replugs>>
    BY <1>11, EndFacts
  <2>2. CASE process' = "null_connection"
    BY <2>2 DEF EndsHaveCause
  <2>3. CASE process' = "exited" /\ process = "exiting"
    BY <2>1, <2>3 DEF IInv, EndsHaveCause
  <2>4. CASE /\ process' \in {"unfit_rates", "list_changed"}
             /\ \E s \in Sessions : sess[s] # "unborn" \/ telling[s] # "none"
    <3>1. \E a \in Activities : command[a] = "start"
      BY <2>4 DEF IInv, SessionsWereAsked, Begun
    <3> QED
      BY <2>1, <2>4, <3>1 DEF EndsHaveCause
  <2>5. CASE /\ process' = "not_bound"
             /\ \E a \in Activities :
                  life[a] = "visible" /\ mBound[a] /\ conn[a] = "none"
    <3>1. returns > 0 /\ replugs > 0
      BY <2>5 DEF IInv, BoundUnlessReturned
    <3> QED
      BY <2>1, <2>5, <3>1 DEF EndsHaveCause
  <2> QED
    BY <1>11, <2>2, <2>3, <2>4, <2>5 DEF EndStep
<1> QED
  BY <1>1, <1>2, <1>3, <1>4, <1>5, <1>6, <1>7, <1>8, <1>9, <1>10, <1>11, Steps

\* The invariant holds at the start.
LEMMA InitIInv == Init => IInv
<1> SUFFICES ASSUME Init PROVE IInv
  OBVIOUS
<1> USE DEF Init
<1>1. Types
  BY DEF Types
<1>2. UnbornIsBlank /\ ConnectedByPermission /\ BoundUnlessReturned
  BY DEF UnbornIsBlank, ConnectedByPermission, BoundUnlessReturned
<1>3. StartedForSomebody /\ SessionsWereAsked /\ EndsHaveCause
  BY DEF StartedForSomebody, SessionsWereAsked, Begun, EndsHaveCause
<1> QED
  BY <1>1, <1>2, <1>3 DEF IInv

-----------------------------------------------------------------------------
\* The strengthened invariant holds, for any number of activities, returns,
\* sessions and replugs.
THEOREM OpeningInvariant == Spec => []IInv
<1>1. IInv /\ [Next]_vars => IInv'
  BY TypesKept, UnbornIsBlankKept, StartedForSomebodyKept,
     SessionsWereAskedKept, ConnectedByPermissionKept,
     BoundUnlessReturnedKept, EndsHaveCauseKept
     DEF IInv
<1> QED
  BY <1>1, InitIInv, PTL DEF Spec

\* System.exit takes a request to stop, a second request to start, or a user
\* who returned (BinaryRunnerService takes that for a second request); onStop
\* unbinds what is not bound only for a user who returned, and a dongle that was
\* unplugged; exit(1) and a torn list of listeners take a request to start.
THEOREM OpeningEndsHaveCause == Spec => []EndsHaveCause
<1>1. IInv => EndsHaveCause
  BY DEF IInv
<1> QED
  BY <1>1, OpeningInvariant, PTL
================================================================================
