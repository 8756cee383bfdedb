---- MODULE HappyEyeballsProofs ----
(***************************************************************************)
(* Theorems of HappyEyeballs, for every number of addresses: the socket    *)
(* handed out stays open, no descriptor is closed twice, the call throws   *)
(* only when every attempt failed, nothing is leaked.                      *)
(***************************************************************************)
EXTENDS HappyEyeballs, FiniteSetTheorems, TLAPS

\* The caller's counter counts the futures it has consumed, and an attempt
\* that it consumed has ended: with a socket only if that attempt won.
CallerInv == /\ completed = Cardinality({i \in Attempt : done[i]})
             /\ \A i \in Attempt : done[i] =>
                  \/ task[i] = "failed"
                  \/ task[i] = "connected" /\ winner = i
             /\ winner # NoWinner => done[winner] /\ task[winner] = "connected"
             /\ pc = "poll" => drainer = "idle"
             /\ pc = "returned" => winner # NoWinner
             /\ pc = "threw" => winner = NoWinner /\ completed = n

\* Who owns each socket: its attempt until that ends, then the caller or the
\* drainer.
Drained(i) == drainer # "idle" /\ i < dcursor /\ ~done[i]

SocketInv == \A i \in Attempt :
               /\ task[i] = "launched" => fd[i] = "none"
               /\ task[i] = "connecting" => fd[i] = "open"
               /\ task[i] = "failed" => fd[i] \in {"none", "closed"}
               /\ task[i] = "connected" =>
                    fd[i] = IF Drained(i) THEN "closed" ELSE "open"

\* What the drainer has passed has ended; it runs if anything is outstanding.
DrainerInv == /\ \A i \in Attempt : Drained(i) => Ready(i)
              /\ pc # "poll" /\ drainer = "idle" => completed = n
              /\ drainer = "finished" => dcursor = n + 1
              /\ drainer = "idle" => dcursor = 1

IInv == TypeOK /\ CallerInv /\ SocketInv /\ DrainerInv
----
LEMMA CountType == n \in Nat
  BY AddressCounts DEF n

LEMMA AttemptsFinite == IsFiniteSet(Attempt) /\ Cardinality(Attempt) = n
  BY CountType, FS_Interval DEF Attempt

\* The counter reaches n exactly when every future has been consumed.
LEMMA AllConsumed ==
  ASSUME TypeOK, CallerInv
  PROVE  /\ completed \in 0 .. n
         /\ completed = n => \A i \in Attempt : done[i]
  <1> DEFINE D == {i \in Attempt : done[i]}
  <1>1. /\ IsFiniteSet(D)
        /\ Cardinality(D) <= n
        /\ Cardinality(D) = n => D = Attempt
    BY AttemptsFinite, FS_Subset
  <1>2. completed = Cardinality(D)
    BY DEF CallerInv
  <1> QED
    BY <1>1, <1>2, CountType DEF TypeOK

\* Consuming one more future adds one to the count.
LEMMA OneMore ==
  ASSUME TypeOK, CallerInv, NEW j \in Attempt, ~done[j],
         done' = [done EXCEPT ![j] = TRUE], completed' = completed + 1
  PROVE  /\ completed' = Cardinality({i \in Attempt : done'[i]})
         /\ completed' \in 0 .. n
  <1> DEFINE D == {i \in Attempt : done[i]}
             E == {i \in Attempt : done'[i]}
  <1>1. IsFiniteSet(D) /\ IsFiniteSet(E) /\ Cardinality(E) <= n
    BY AttemptsFinite, FS_Subset
  <1>2. E = D \cup {j} /\ j \notin D
    BY DEF TypeOK
  <1>3. Cardinality(E) = Cardinality(D) + 1
    <2> HIDE DEF D, E
    <2> QED BY <1>1, <1>2, FS_AddElement
  <1>4. completed = Cardinality(D)
    BY DEF CallerInv
  <1>5. completed' = Cardinality(E)
    BY <1>3, <1>4
  <1> QED
    BY <1>1, <1>5, CountType, FS_CardinalityType DEF TypeOK

LEMMA InvInit == Init => IInv
  <1> SUFFICES ASSUME Init PROVE IInv
    OBVIOUS
  <1> USE CountType DEF Init, Attempt, NoWinner
  <1>1. TypeOK
    BY DEF TypeOK
  <1>2. CallerInv
    <2>1. {i \in Attempt : done[i]} = {}
      OBVIOUS
    <2> QED BY <2>1, FS_EmptySet DEF CallerInv
  <1>3. SocketInv /\ DrainerInv
    BY DEF SocketInv, DrainerInv, Drained
  <1> QED
    BY <1>1, <1>2, <1>3 DEF IInv

LEMMA InvNext == IInv /\ [Next]_vars => IInv'
  <1> SUFFICES ASSUME IInv, [Next]_vars PROVE IInv'
    OBVIOUS
  <1> USE CountType
  <1>a. TypeOK /\ CallerInv /\ SocketInv /\ DrainerInv
    BY DEF IInv
  <1>b. NoWinner \notin Attempt
    BY DEF NoWinner, Attempt
  <1>1. ASSUME NEW i \in Attempt, Task(i) PROVE IInv'
    <2>a. /\ ~Ready(i)
          /\ task' = [task EXCEPT ![i] = task'[i]]
          /\ fd' = [fd EXCEPT ![i] = fd'[i]]
          /\ UNCHANGED <<pc, cursor, done, completed, winner, drainer, dcursor>>
      BY <1>1, <1>a DEF Task, SocketFails, StartConnect, Connected, ConnectFails, Ready,
         TypeOK, callerVars, drainVars
    <2>b. \/ task'[i] = "failed" /\ fd'[i] \in {"none", "closed"}
          \/ task'[i] \in {"connecting", "connected"} /\ fd'[i] = "open"
      BY <1>1, <1>a DEF Task, SocketFails, StartConnect, Connected, ConnectFails, TypeOK,
         SocketInv, Closed
    <2>c. ~done[i] /\ ~Drained(i) /\ winner # i
      BY <2>a, <1>a, <1>b DEF CallerInv, DrainerInv, Ready
    <2>1. TypeOK'
      BY <2>a, <2>b, <1>a DEF TypeOK
    <2>2. CallerInv'
      BY <2>a, <2>c, <1>a, <1>b DEF CallerInv, TypeOK
    <2>3. SocketInv'
      BY <2>a, <2>b, <2>c, <1>a DEF SocketInv, TypeOK, Drained
    <2>4. DrainerInv'
      BY <2>a, <2>b, <2>c, <1>a DEF DrainerInv, TypeOK, Drained, Ready
    <2> QED
      BY <2>1, <2>2, <2>3, <2>4 DEF IInv
  <1>2. ASSUME TakeFuture PROVE IInv'
    <2> DEFINE j == cursor
    <2>a. /\ j \in Attempt /\ ~done[j] /\ Ready(j) /\ winner = NoWinner
          /\ done' = [done EXCEPT ![j] = TRUE]
          /\ completed' = completed + 1
          /\ winner' = IF task[j] = "connected" THEN j ELSE winner
          /\ cursor' = j + 1
          /\ pc = "poll" /\ drainer = "idle"
          /\ UNCHANGED <<task, fd, pc, drainer, dcursor>>
      BY <1>2, <1>a DEF TakeFuture, Polling, CallerInv, drainVars
    <2>b. /\ completed' = Cardinality({i \in Attempt : done'[i]})
          /\ completed' \in 0 .. n
      BY <2>a, <1>a, OneMore
    <2>1. TypeOK'
      BY <2>a, <2>b, <1>a DEF TypeOK, Attempt
    <2>2. CallerInv'
      <3>1. \A i \in Attempt : done'[i] => \/ task'[i] = "failed"
                                           \/ task'[i] = "connected" /\ winner' = i
        BY <2>a, <1>a, <1>b DEF CallerInv, TypeOK, Ready
      <3>2. winner' # NoWinner => done'[winner'] /\ task'[winner'] = "connected"
        BY <2>a, <1>a DEF TypeOK
      <3> QED BY <2>a, <2>b, <3>1, <3>2 DEF CallerInv
    <2>3. SocketInv' /\ DrainerInv'
      BY <2>a, <1>a DEF SocketInv, DrainerInv, Drained, Ready, TypeOK
    <2> QED
      BY <2>1, <2>2, <2>3 DEF IInv
  <1>3. ASSUME SkipFuture \/ NextPass PROVE IInv'
    <2>a. UNCHANGED <<task, fd, pc, done, completed, winner, drainer, dcursor>>
      BY <1>3 DEF SkipFuture, NextPass, drainVars
    <2>b. cursor' \in 1 .. n + 1
      BY <1>3, <1>a DEF SkipFuture, NextPass, TypeOK, Attempt
    <2> QED
      BY <2>a, <2>b, <1>a DEF IInv, TypeOK, CallerInv, SocketInv, DrainerInv, Drained, Ready
  <1>4. ASSUME Finish PROVE IInv'
    <2>a. /\ pc = "poll" /\ drainer = "idle" /\ dcursor = 1
          /\ winner = NoWinner => completed = n
          /\ drainer' = IF completed < n THEN "running" ELSE drainer
          /\ pc' = IF winner # NoWinner THEN "returned" ELSE "threw"
          /\ UNCHANGED <<task, fd, cursor, done, completed, winner, dcursor>>
      BY <1>4, <1>a DEF Finish, CallerInv, DrainerInv, TypeOK
    <2>1. TypeOK' /\ CallerInv'
      BY <2>a, <1>a DEF TypeOK, CallerInv
    <2>2. SocketInv' /\ DrainerInv'
      BY <2>a, <1>a DEF SocketInv, DrainerInv, Drained, Ready, TypeOK, Attempt
    <2> QED
      BY <2>1, <2>2 DEF IInv
  <1>5. ASSUME Drain PROVE IInv'
    <2> DEFINE j == dcursor
    <2>a. /\ j \in Attempt /\ drainer = "running" /\ dcursor' = j + 1
          /\ done[j] \/ Ready(j)
          /\ fd' = IF ~done[j] /\ task[j] = "connected"
                   THEN [fd EXCEPT ![j] = Closed(@)] ELSE fd
          /\ UNCHANGED <<task, pc, cursor, done, completed, winner, drainer>>
      BY <1>5 DEF Drain, callerVars
    <2>b. \A i \in Attempt : Drained(i)' <=> Drained(i) \/ (i = j /\ ~done[i])
      BY <2>a, <1>a DEF Drained, TypeOK, Attempt
    <2>c. ~Drained(j)
      BY <2>a DEF Drained, Attempt
    <2>d. fd[j] = "open" => Closed(fd[j]) = "closed"
      BY DEF Closed
    <2>1. TypeOK'
      BY <2>a, <1>a DEF TypeOK, Attempt, Closed
    <2>2. CallerInv'
      BY <2>a, <1>a DEF CallerInv
    <2>3. SocketInv'
      BY <2>a, <2>b, <2>c, <2>d, <1>a DEF SocketInv, TypeOK
    <2>4. DrainerInv'
      BY <2>a, <2>b, <1>a DEF DrainerInv, Ready
    <2> QED
      BY <2>1, <2>2, <2>3, <2>4 DEF IInv
  <1>6. ASSUME DrainerExits PROVE IInv'
    <2>a. /\ drainer = "running" /\ drainer' = "finished" /\ dcursor = n + 1
          /\ UNCHANGED <<task, fd, pc, cursor, done, completed, winner, dcursor>>
      BY <1>6, <1>a DEF DrainerExits, callerVars, TypeOK, Attempt
    <2> QED
      BY <2>a, <1>a DEF IInv, TypeOK, CallerInv, SocketInv, DrainerInv, Drained, Ready
  <1>7. CASE UNCHANGED vars
    BY <1>7, <1>a DEF IInv, vars, callerVars, drainVars, TypeOK, CallerInv, SocketInv,
       DrainerInv, Drained, Ready
  <1> QED
    BY <1>1, <1>2, <1>3, <1>4, <1>5, <1>6, <1>7 DEF Next, Caller, Drainer

\* The inductive invariant holds in every reachable state.
THEOREM Invariant == Spec => []IInv
  BY InvInit, InvNext, PTL DEF Spec

\* Every variable of the race keeps its type.
THEOREM TypeCorrect == Spec => []TypeOK
  <1>1. IInv => TypeOK
    BY DEF IInv
  <1> QED BY <1>1, Invariant, PTL

\* The socket handed out is connected and was not closed by anyone.
THEOREM WinnerSafe == Spec => []WinnerUsable
  <1>1. IInv => WinnerUsable
    BY DEF IInv, TypeOK, CallerInv, SocketInv, Drained, WinnerUsable
  <1> QED BY <1>1, Invariant, PTL

\* Nobody closes a socket that another one has closed or still owns.
THEOREM ClosedOnce == Spec => []NoDoubleClose
  <1>1. IInv => NoDoubleClose
    BY DEF IInv, TypeOK, SocketInv, NoDoubleClose
  <1> QED BY <1>1, Invariant, PTL

\* The call throws only after every attempt was made and failed.
THEOREM ThrowIsTotalFailure == Spec => []ThrowsOnlyIfAllFailed
  <1>1. IInv => ThrowsOnlyIfAllFailed
    <2> SUFFICES ASSUME IInv, pc = "threw", NEW i \in Attempt
                 PROVE  task[i] = "failed" /\ fd[i] # "open"
      BY DEF ThrowsOnlyIfAllFailed
    <2>1. done[i]
      BY AllConsumed DEF IInv, CallerInv
    <2> QED BY <2>1 DEF IInv, CallerInv, SocketInv, NoWinner, Attempt
  <1> QED BY <1>1, Invariant, PTL

\* Nothing is leaked: once the call and the drainer have ended, the winner's
\* socket is the only one open.
THEOREM NothingLeaked == Spec => []NoSocketLeft
  <1>1. IInv => NoSocketLeft
    <2> SUFFICES ASSUME IInv, pc # "poll", drainer # "running",
                        NEW i \in Attempt, fd[i] = "open"
                 PROVE  i = winner
      BY DEF NoSocketLeft
    <2>1. CASE drainer = "idle"
      <3>1. done[i]
        BY <2>1, AllConsumed DEF IInv, DrainerInv
      <3> QED BY <3>1 DEF IInv, CallerInv, SocketInv
    <2>2. CASE drainer = "finished"
      <3>1. done[i] \/ Drained(i)
        BY <2>2, CountType DEF IInv, DrainerInv, Drained, Attempt
      <3>2. Drained(i) => FALSE
        BY DEF IInv, SocketInv, DrainerInv, Ready
      <3> QED BY <3>1, <3>2 DEF IInv, CallerInv, SocketInv
    <2> QED BY <2>1, <2>2 DEF IInv, TypeOK
  <1> QED BY <1>1, Invariant, PTL
----
(* The refinement of ConnectRace *)

tried == {i \in Attempt : task[i] # "launched"}
open == {i \in Attempt : fd[i] = "open"}
chosen == IF winner # NoWinner THEN winner
          ELSE IF pc = "threw" THEN NoWinner ELSE NoWinner - 1

\* A step of the threads is a step of the abstract race or changes none of it.
LEMMA RaceStep == IInv /\ [Next]_vars => [Race!Next]_(Race!vars)
  <1> SUFFICES ASSUME IInv, [Next]_vars PROVE [Race!Next]_(Race!vars)
    OBVIOUS
  <1> USE CountType
  <1>a. TypeOK /\ CallerInv /\ SocketInv /\ DrainerInv
    BY DEF IInv
  <1>b. NoWinner \notin Attempt /\ NoWinner - 1 \notin Attempt /\ NoWinner # NoWinner - 1
    BY DEF NoWinner, Attempt
  <1>c. ASSUME tried' = tried, open' = open, chosen' = chosen
        PROVE  [Race!Next]_(Race!vars)
    BY <1>c DEF Race!vars, tried, open, chosen
  <1>1. ASSUME NEW i \in Attempt, SocketFails(i) \/ StartConnect(i)
        PROVE  [Race!Next]_(Race!vars)
    <2>a. /\ task[i] = "launched" /\ fd[i] = "none"
          /\ task' = [task EXCEPT ![i] = task'[i]] /\ task'[i] # "launched"
          /\ fd' = [fd EXCEPT ![i] = fd'[i]]
          /\ UNCHANGED <<pc, winner>>
      BY <1>1, <1>a DEF SocketFails, StartConnect, TypeOK, SocketInv, callerVars
    <2>1. i \notin tried /\ tried' = tried \cup {i} /\ chosen' = chosen
      BY <2>a, <1>a DEF tried, chosen, TypeOK
    <2>2. open' = open \/ open' = open \cup {i}
      BY <2>a, <1>a DEF open, TypeOK
    <2>3. Race!Try(i)
      BY <2>1, <2>2 DEF Race!Try, tried, open, chosen
    <2> QED BY <2>3 DEF Race!Next
  <1>2. ASSUME NEW i \in Attempt, Connected(i) PROVE [Race!Next]_(Race!vars)
    <2>1. tried' = tried /\ open' = open /\ chosen' = chosen
      BY <1>2, <1>a DEF Connected, TypeOK, tried, open, chosen, callerVars
    <2> QED BY <2>1, <1>c
  <1>3. ASSUME NEW i \in Attempt, ConnectFails(i) PROVE [Race!Next]_(Race!vars)
    <2>a. /\ task[i] = "connecting" /\ fd[i] = "open"
          /\ task' = [task EXCEPT ![i] = "failed"]
          /\ fd' = [fd EXCEPT ![i] = "closed"]
          /\ UNCHANGED <<pc, winner>>
      BY <1>3, <1>a DEF ConnectFails, Closed, SocketInv, callerVars
    <2>1. i \in open /\ open' = open \ {i} /\ tried' = tried /\ chosen' = chosen
      BY <2>a, <1>a DEF open, tried, chosen, TypeOK
    <2>2. chosen # i
      BY <2>a, <1>a, <1>b DEF chosen, CallerInv
    <2>3. Race!Close(i)
      BY <2>1, <2>2 DEF Race!Close, tried, open, chosen
    <2> QED BY <2>3 DEF Race!Next
  <1>4. ASSUME TakeFuture PROVE [Race!Next]_(Race!vars)
    <2>a. /\ cursor \in Attempt /\ winner = NoWinner /\ pc = "poll" /\ ~done[cursor]
          /\ winner' = IF task[cursor] = "connected" THEN cursor ELSE winner
          /\ drainer = "idle"
          /\ UNCHANGED <<task, fd, pc>>
      BY <1>4, <1>a DEF TakeFuture, Polling, CallerInv
    <2>1. tried' = tried /\ open' = open
      BY <2>a DEF tried, open
    <2>2. CASE task[cursor] = "connected"
      <3>1. cursor \in open /\ chosen = NoWinner - 1 /\ chosen' = cursor
        BY <2>2, <2>a, <1>a, <1>b DEF open, chosen, SocketInv, Drained
      <3>2. Race!Choose(cursor)
        BY <2>1, <3>1 DEF Race!Choose, tried, open, chosen
      <3> QED BY <2>a, <3>2 DEF Race!Next
    <2>3. CASE task[cursor] # "connected"
      BY <2>1, <2>3, <2>a, <1>c DEF chosen
    <2> QED BY <2>2, <2>3
  <1>5. ASSUME SkipFuture \/ NextPass \/ DrainerExits PROVE [Race!Next]_(Race!vars)
    <2>1. tried' = tried /\ open' = open /\ chosen' = chosen
      BY <1>5 DEF SkipFuture, NextPass, DrainerExits, tried, open, chosen, callerVars
    <2> QED BY <2>1, <1>c
  <1>6. ASSUME Finish PROVE [Race!Next]_(Race!vars)
    <2>a. /\ pc = "poll"
          /\ winner = NoWinner => completed = n
          /\ pc' = IF winner # NoWinner THEN "returned" ELSE "threw"
          /\ UNCHANGED <<task, fd, winner>>
      BY <1>6, <1>a DEF Finish, TypeOK
    <2>1. tried' = tried /\ open' = open
      BY <2>a DEF tried, open
    <2>2. CASE winner # NoWinner
      BY <2>1, <2>2, <2>a, <1>c DEF chosen
    <2>3. CASE winner = NoWinner
      <3>1. \A i \in Attempt : task[i] = "failed" /\ fd[i] # "open"
        BY <2>3, <2>a, <1>a, <1>b, AllConsumed DEF CallerInv, SocketInv
      <3>2. chosen = NoWinner - 1 /\ chosen' = NoWinner
        BY <2>3, <2>a DEF chosen
      <3>3. tried = Attempt /\ open = {}
        BY <3>1 DEF tried, open
      <3>4. Race!GiveUp
        BY <2>1, <3>2, <3>3 DEF Race!GiveUp, tried, open, chosen
      <3> QED BY <3>4 DEF Race!Next
    <2> QED BY <2>2, <2>3
  <1>7. ASSUME Drain PROVE [Race!Next]_(Race!vars)
    <2>a. /\ dcursor \in Attempt /\ UNCHANGED <<task, pc, winner>>
          /\ fd' = IF ~done[dcursor] /\ task[dcursor] = "connected"
                   THEN [fd EXCEPT ![dcursor] = Closed(@)] ELSE fd
      BY <1>7 DEF Drain, callerVars
    <2>1. tried' = tried /\ chosen' = chosen
      BY <2>a DEF tried, chosen
    <2>2. CASE ~done[dcursor] /\ task[dcursor] = "connected"
      <3>0. ~Drained(dcursor)
        BY <2>a DEF Drained, Attempt
      <3>1. fd[dcursor] = "open" /\ fd' = [fd EXCEPT ![dcursor] = "closed"]
        BY <2>2, <2>a, <1>a, <3>0 DEF SocketInv, Closed
      <3>2. dcursor \in open /\ open' = open \ {dcursor}
        BY <3>1, <2>a, <1>a DEF open, TypeOK
      <3>3. chosen # dcursor
        BY <2>2, <2>a, <1>a, <1>b DEF chosen, CallerInv
      <3>4. \E i \in Attempt : Race!Close(i)
        BY <2>a, <2>1, <3>2, <3>3 DEF Race!Close, tried, open, chosen
      <3> QED BY <3>4 DEF Race!Next
    <2>3. CASE ~(~done[dcursor] /\ task[dcursor] = "connected")
      <3>1. open' = open
        BY <2>3, <2>a DEF open
      <3> QED BY <2>1, <3>1, <1>c
    <2> QED BY <2>2, <2>3
  <1>8. CASE UNCHANGED vars
    <2>1. tried' = tried /\ open' = open /\ chosen' = chosen
      BY <1>8 DEF vars, tried, open, chosen, callerVars
    <2> QED BY <2>1, <1>c
  <1> QED
    BY <1>1, <1>2, <1>3, <1>4, <1>5, <1>6, <1>7, <1>8 DEF Next, Task, Caller, Drainer

\* happy_eyeballs_connect implements the abstract race (its safety part).
THEOREM Refinement == Spec => ImplementsRace
  <1>1. Init => Race!Init
    BY DEF Init, Race!Init, NoWinner
  <1> QED
    BY <1>1, Invariant, RaceStep, PTL DEF Spec, ImplementsRace, Race!Safe
====
