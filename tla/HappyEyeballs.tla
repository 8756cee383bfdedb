---- MODULE HappyEyeballs ----
(***************************************************************************)
(* happy_eyeballs_connect (URL_to_DNS/resolve_host.cpp): one asynchronous  *)
(* task per resolved address runs try_connect, the caller polls the        *)
(* futures for the first socket, and a detached thread drains the rest.    *)
(*                                                                         *)
(* Each task, the caller and the drainer are separate threads.  Addresses  *)
(* are numbered in the order their futures are pushed: IPv6, then IPv4.    *)
(* Times are abstracted: try_connect ends, one way or the other, because   *)
(* connect() and select() are bounded; a wait_for that finds the future    *)
(* not ready is a step that moves on.                                      *)
(***************************************************************************)
EXTENDS Integers, FiniteSets

CONSTANTS NumIp6, NumIp4    \* addresses of each family in the ResolvedHost

ASSUME AddressCounts == NumIp6 \in Nat /\ NumIp4 \in Nat

n == NumIp6 + NumIp4
Attempt == 1 .. n
NoWinner == 0

VARIABLES
  task,       \* progress of each attempt's try_connect
  fd,         \* the socket each attempt created
  pc,         \* the caller
  cursor,     \* the caller's index i in the poll loop
  done,       \* futures the caller has consumed
  completed,  \* how many futures the caller has consumed
  winner,     \* the endpoint to return, or NoWinner
  drainer,    \* the detached thread
  dcursor     \* the drainer's index

callerVars == <<pc, cursor, done, completed, winner>>
drainVars == <<drainer, dcursor>>
vars == <<task, fd, callerVars, drainVars>>

Ready(i) == task[i] \in {"connected", "failed"}

\* closesocket on something other than an open socket is an error of its own:
\* the descriptor may by then belong to somebody else.
Closed(s) == IF s = "open" THEN "closed" ELSE "misclosed"

Init == /\ task = [i \in Attempt |-> "launched"]
        /\ fd = [i \in Attempt |-> "none"]
        /\ pc = "poll"
        /\ cursor = 1
        /\ done = [i \in Attempt |-> FALSE]
        /\ completed = 0
        /\ winner = NoWinner
        /\ drainer = "idle"
        /\ dcursor = 1
----
(* try_connect, one thread per attempt *)

\* socket() fails: the attempt has no endpoint.
SocketFails(i) == /\ task[i] = "launched"
                  /\ task' = [task EXCEPT ![i] = "failed"]
                  /\ UNCHANGED <<fd, callerVars, drainVars>>

\* socket() succeeds and connect() is under way.
StartConnect(i) == /\ task[i] = "launched"
                   /\ task' = [task EXCEPT ![i] = "connecting"]
                   /\ fd' = [fd EXCEPT ![i] = "open"]
                   /\ UNCHANGED <<callerVars, drainVars>>

\* connect() or select() reports success: the future holds the endpoint.
Connected(i) == /\ task[i] = "connecting"
                /\ task' = [task EXCEPT ![i] = "connected"]
                /\ UNCHANGED <<fd, callerVars, drainVars>>

\* Faulty variants: the failed socket is closed but still handed out, or it
\* is not closed at all.
FailureHandsOutSocket(i) == /\ task[i] = "connecting"
                            /\ task' = [task EXCEPT ![i] = "connected"]
                            /\ fd' = [fd EXCEPT ![i] = Closed(@)]
                            /\ UNCHANGED <<callerVars, drainVars>>

FailureKeepsSocket(i) == /\ task[i] = "connecting"
                         /\ task' = [task EXCEPT ![i] = "failed"]
                         /\ UNCHANGED <<fd, callerVars, drainVars>>

\* connect() is refused or select() times out: the socket is closed.
ConnectFails(i) == /\ task[i] = "connecting"
                   /\ task' = [task EXCEPT ![i] = "failed"]
                   /\ fd' = [fd EXCEPT ![i] = Closed(@)]
                   /\ UNCHANGED <<callerVars, drainVars>>

Task(i) == SocketFails(i) \/ StartConnect(i) \/ Connected(i) \/ ConnectFails(i)
----
(* the caller *)

Polling == pc = "poll" /\ winner = NoWinner

\* The future at the cursor is ready: consume it; a socket wins.
TakeFuture == /\ Polling
              /\ cursor \in Attempt
              /\ ~done[cursor]
              /\ Ready(cursor)
              /\ done' = [done EXCEPT ![cursor] = TRUE]
              /\ completed' = completed + 1
              /\ winner' = IF task[cursor] = "connected" THEN cursor ELSE winner
              /\ cursor' = cursor + 1
              /\ UNCHANGED <<task, fd, pc, drainVars>>

\* It was consumed earlier, or is still not ready after the 2 ms wait.
SkipFuture == /\ Polling
              /\ cursor \in Attempt
              /\ done[cursor] \/ ~Ready(cursor)
              /\ cursor' = cursor + 1
              /\ UNCHANGED <<task, fd, pc, done, completed, winner, drainVars>>

\* Faulty variant: the next pass starts before the first future.
NextPassFromZero == /\ Polling
                    /\ cursor \notin Attempt
                    /\ completed < n
                    /\ cursor' = 0
                    /\ UNCHANGED <<task, fd, pc, done, completed, winner, drainVars>>

\* The end of a pass over the futures with attempts still outstanding.
NextPass == /\ Polling
            /\ cursor \notin Attempt
            /\ completed < n
            /\ cursor' = 1
            /\ UNCHANGED <<task, fd, pc, done, completed, winner, drainVars>>

\* Faulty variants: the loop ends one future early, or nobody drains.
FinishEarly == /\ pc = "poll"
               /\ winner # NoWinner \/ (cursor \notin Attempt /\ completed + 1 >= n)
               /\ drainer' = IF completed < n THEN "running" ELSE drainer
               /\ pc' = IF winner # NoWinner THEN "returned" ELSE "threw"
               /\ UNCHANGED <<task, fd, cursor, done, completed, winner, dcursor>>

FinishWithoutDrainer ==
  /\ pc = "poll"
  /\ winner # NoWinner \/ (cursor \notin Attempt /\ completed >= n)
  /\ pc' = IF winner # NoWinner THEN "returned" ELSE "threw"
  /\ UNCHANGED <<task, fd, cursor, done, completed, winner, drainVars>>

\* The loop is over: leave what is outstanding to a detached thread, then
\* return the winner or throw.
Finish == /\ pc = "poll"
          /\ winner # NoWinner \/ (cursor \notin Attempt /\ completed >= n)
          /\ drainer' = IF completed < n THEN "running" ELSE drainer
          /\ pc' = IF winner # NoWinner THEN "returned" ELSE "threw"
          /\ UNCHANGED <<task, fd, cursor, done, completed, winner, dcursor>>

Caller == TakeFuture \/ SkipFuture \/ NextPass \/ Finish
----
(* the detached drainer *)

\* Faulty variants: the winner's future is drained too, or the drainer does
\* not wait for slow attempts.
DrainAll == /\ drainer = "running"
            /\ dcursor \in Attempt
            /\ Ready(dcursor)
            /\ fd' = IF task[dcursor] = "connected"
                     THEN [fd EXCEPT ![dcursor] = Closed(@)] ELSE fd
            /\ dcursor' = dcursor + 1
            /\ UNCHANGED <<task, callerVars, drainer>>

DrainReadyOnly == /\ drainer = "running"
                  /\ dcursor \in Attempt
                  /\ fd' = IF ~done[dcursor] /\ task[dcursor] = "connected"
                           THEN [fd EXCEPT ![dcursor] = Closed(@)] ELSE fd
                  /\ dcursor' = dcursor + 1
                  /\ UNCHANGED <<task, callerVars, drainer>>

\* get() blocks until the attempt ends; a redundant socket is closed.
Drain == /\ drainer = "running"
         /\ dcursor \in Attempt
         /\ done[dcursor] \/ Ready(dcursor)
         /\ fd' = IF ~done[dcursor] /\ task[dcursor] = "connected"
                  THEN [fd EXCEPT ![dcursor] = Closed(@)] ELSE fd
         /\ dcursor' = dcursor + 1
         /\ UNCHANGED <<task, callerVars, drainer>>

DrainerExits == /\ drainer = "running"
                /\ dcursor \notin Attempt
                /\ drainer' = "finished"
                /\ UNCHANGED <<task, fd, callerVars, dcursor>>

Drainer == Drain \/ DrainerExits
----
Next == (\E i \in Attempt : Task(i)) \/ Caller \/ Drainer

\* Every thread is scheduled, and the kernel ends every connect in time.
Fairness == /\ \A i \in Attempt : WF_vars(Task(i))
            /\ WF_vars(Caller)
            /\ WF_vars(Drainer)

Spec == Init /\ [][Next]_vars /\ Fairness
----
(* Properties *)

\* Every variable stays within its declared range (resolve_host.cpp:97-144).
TypeOK == /\ task \in [Attempt -> {"launched", "connecting", "connected", "failed"}]
          /\ fd \in [Attempt -> {"none", "open", "closed", "misclosed"}]
          /\ pc \in {"poll", "returned", "threw"}
          /\ cursor \in 1 .. n + 1
          /\ done \in [Attempt -> BOOLEAN]
          /\ completed \in 0 .. n
          /\ winner \in Attempt \cup {NoWinner}
          /\ drainer \in {"idle", "running", "finished"}
          /\ dcursor \in 1 .. n + 1

\* The endpoint the caller gets is a connected socket that nobody has closed
\* and nobody closes later, whatever the drainer does meanwhile
\* (resolve_host.cpp:116-143).
WinnerUsable == pc = "returned" => /\ winner # NoWinner
                                   /\ task[winner] = "connected"
                                   /\ fd[winner] = "open"

\* No descriptor is closed twice, and none that was never opened is closed:
\* try_connect, the caller and the drainer never both own one
\* (resolve_host.cpp:73-76, 131-140).
NoDoubleClose == \A i \in Attempt : fd[i] # "misclosed"

\* "No IP could be connected" is thrown only when every address was tried and
\* failed, with no socket left behind (resolve_host.cpp:118-129, 142-143).
ThrowsOnlyIfAllFailed ==
  pc = "threw" => \A i \in Attempt : task[i] = "failed" /\ fd[i] # "open"

\* Once the call has returned and the drainer, if one was needed, has ended,
\* the only socket the race still holds is the winner's: a slow attempt that
\* connects after the call returned is not leaked (resolve_host.cpp:131-140).
NoSocketLeft ==
  (pc # "poll" /\ drainer # "running") =>
     \A i \in Attempt : fd[i] = "open" => i = winner

\* HappyEyeballs implements ConnectRace: the race is decided when the caller
\* consumes the winning future or throws.
Race == INSTANCE ConnectRace WITH
          Attempt <- Attempt, Undecided <- NoWinner - 1, NoSocket <- NoWinner,
          tried <- {i \in Attempt : task[i] # "launched"},
          open <- {i \in Attempt : fd[i] = "open"},
          chosen <- IF winner # NoWinner THEN winner
                    ELSE IF pc = "threw" THEN NoWinner ELSE NoWinner - 1

\* Every step of the threads is a step of the abstract race: one socket is
\* handed out, only others are closed, failure means every attempt was made.
ImplementsRace == Race!Safe

\* The call ends, and every redundant socket is closed in the end, even those
\* that connect after it returned.
RaceDelivers == Race!Delivers
====
