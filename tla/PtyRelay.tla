------------------------------ MODULE PtyRelay ------------------------------
(***************************************************************************)
(* The terminal of one session and the WebSockets attached to it           *)
(* (pty_bridge.rs): a reader thread sends what the process writes to a     *)
(* broadcast channel, a task per viewer forwards it, another writes what   *)
(* the viewer types.  Chunks of output and of input are numbered.          *)
(***************************************************************************)
EXTENDS Naturals, Sequences

CONSTANTS
  Viewer,
  Capacity,  \* of the broadcast channel (1024)
  MaxOutput, MaxInput, MaxSpawns, MaxAttaches

ASSUME CapacityAssumption == Capacity \in Nat \ {0}
ASSUME BoundAssumption == {MaxOutput, MaxInput, MaxSpawns, MaxAttaches} \subseteq Nat

VARIABLES
  entry,    \* the process in the map of terminals, 0 for none
  opening,  \* processes that run and are not in the map yet
  spawned,  \* processes spawned so far
  alive,    \* processes that have not ended
  output,   \* chunks each process has written
  input,    \* what each process has read of each viewer
  viewer,   \* the socket and the two tasks of each viewer
  attaches  \* subscriptions so far

relayVars == <<entry, opening, spawned, alive, output, input, viewer, attaches>>

Process == 1..MaxSpawns
Away == [at |-> 0]

RelayInit ==
  /\ entry = 0 /\ opening = {} /\ spawned = 0 /\ alive = {}
  /\ output = [p \in Process |-> 0]
  /\ input = [p \in Process |-> [v \in Viewer |-> <<>>]]
  /\ viewer = [v \in Viewer |-> Away]
  /\ attaches = 0

\* A spawn is refused while there is an entry, also that of an ended process.
\* Between this look at the map and the insertion another spawn may look.
Spawn ==
  /\ entry = 0 /\ spawned < MaxSpawns
  /\ spawned' = spawned + 1
  /\ opening' = opening \cup {spawned + 1}
  /\ alive' = alive \cup {spawned + 1}
  /\ UNCHANGED <<entry, output, input, viewer, attaches>>

\* An entry inserted meanwhile is replaced.
EnterSession(p) ==
  /\ p \in opening
  /\ opening' = opening \ {p}
  /\ entry' = p
  /\ UNCHANGED <<spawned, alive, output, input, viewer, attaches>>

\* Without a reader or a writer the spawn fails; the child is not killed.
OpenFails(p) ==
  /\ p \in opening
  /\ opening' = opening \ {p}
  /\ UNCHANGED <<entry, spawned, alive, output, input, viewer, attaches>>

\* The reader thread.  With no subscriber the chunk is dropped.
Output(p) ==
  /\ p \in alive /\ output[p] < MaxOutput
  /\ output' = [output EXCEPT ![p] = @ + 1]
  /\ UNCHANGED <<entry, opening, spawned, alive, input, viewer, attaches>>

\* End of file.  The map and the input tasks still hold a sender each, so that
\* no viewer's channel closes.
EndOfFile(p) ==
  /\ p \in alive
  /\ alive' = alive \ {p}
  /\ UNCHANGED <<entry, opening, spawned, output, input, viewer, attaches>>

\* The entry is gone whether or not the process could be killed.
Kill ==
  /\ entry # 0
  /\ entry' = 0
  /\ UNCHANGED <<opening, spawned, alive, output, input, viewer, attaches>>

\* attach_ws subscribes: the viewer's first chunk is the next one written.
Attach(v) ==
  /\ entry # 0 /\ viewer[v] = Away /\ attaches < MaxAttaches
  /\ attaches' = attaches + 1
  /\ viewer' = [viewer EXCEPT ![v] =
       [at |-> entry, from |-> output[entry] + 1, next |-> output[entry] + 1,
        got |-> <<>>, skipped |-> {}, typed |-> 0, control |-> {}, queue |-> <<>>,
        refused |-> {}, sent |-> Len(input[entry][v])]]
  /\ UNCHANGED <<entry, opening, spawned, alive, output, input>>

Attached(v) == viewer[v] # Away
Oldest(p) == IF output[p] > Capacity THEN output[p] - Capacity + 1 ELSE 1

\* Mutant: a lagging viewer subscribes anew.
Lag_Resubscribe(v) ==
  /\ Attached(v) /\ viewer[v].next < Oldest(viewer[v].at)
  /\ viewer' = [viewer EXCEPT ![v].next = output[viewer[v].at] + 1,
                              ![v].skipped = @ \cup viewer[v].next .. output[viewer[v].at]]
  /\ UNCHANGED <<entry, opening, spawned, alive, output, input, attaches>>

\* RecvError::Lagged moves the receiver to the oldest chunk still held.
Lag(v) ==
  /\ Attached(v) /\ viewer[v].next < Oldest(viewer[v].at)
  /\ viewer' = [viewer EXCEPT ![v].next = Oldest(viewer[v].at),
                              ![v].skipped = @ \cup viewer[v].next .. (Oldest(viewer[v].at) - 1)]
  /\ UNCHANGED <<entry, opening, spawned, alive, output, input, attaches>>

Relay(v) ==
  /\ Attached(v)
  /\ viewer[v].next \in Oldest(viewer[v].at) .. output[viewer[v].at]
  /\ viewer' = [viewer EXCEPT ![v].next = @ + 1, ![v].got = Append(@, viewer[v].next)]
  /\ UNCHANGED <<entry, opening, spawned, alive, output, input, attaches>>

\* The page sends what is typed or pasted as text frames, as it comes: a frame
\* may begin with the character that stands before a resize.
Type(v) ==
  /\ Attached(v) /\ viewer[v].typed < MaxInput
  /\ \E controls \in {{}, {viewer[v].typed + 1}} :
       viewer' = [viewer EXCEPT ![v].typed = @ + 1, ![v].queue = Append(@, viewer[v].typed + 1),
                                ![v].control = @ \cup controls]
  /\ UNCHANGED <<entry, opening, spawned, alive, output, input, attaches>>

\* The input task takes one message at a time.  What begins with that character
\* is read as a resize and never written, also when it is none; the error of a
\* write is dropped, and a process that has ended reads nothing.
WriteInput(v) ==
  /\ Attached(v) /\ viewer[v].queue # <<>>
  /\ LET w == viewer[v]  message == Head(w.queue)
     IN  \/ /\ message \in w.control
            /\ viewer' = [viewer EXCEPT ![v].queue = Tail(@)]
            /\ UNCHANGED input
         \/ /\ message \notin w.control /\ w.at \in alive
            /\ viewer' = [viewer EXCEPT ![v].queue = Tail(@)]
            /\ input' = [input EXCEPT ![w.at][v] = Append(@, message)]
         \/ /\ message \notin w.control
            /\ viewer' = [viewer EXCEPT ![v].queue = Tail(@), ![v].refused = @ \cup {message}]
            /\ UNCHANGED input
  /\ UNCHANGED <<entry, opening, spawned, alive, output, attaches>>

\* The socket closes: the input task ends after what was queued, and aborts the other.
Detach(v) ==
  /\ Attached(v) /\ viewer[v].queue = <<>>
  /\ viewer' = [viewer EXCEPT ![v] = Away]
  /\ UNCHANGED <<entry, opening, spawned, alive, output, input, attaches>>

RelayNext ==
  \/ Spawn \/ Kill
  \/ \E p \in Process : EnterSession(p) \/ OpenFails(p) \/ Output(p) \/ EndOfFile(p)
  \/ \E v \in Viewer :
       Attach(v) \/ Lag(v) \/ Relay(v) \/ Type(v) \/ WriteInput(v) \/ Detach(v)

RelaySpec == RelayInit /\ [][RelayNext]_relayVars

---------------------------------------------------------------------------
RelayTypeOK ==
  /\ entry \in 0..spawned /\ spawned \in 0..MaxSpawns
  /\ opening \subseteq 1..spawned /\ alive \subseteq 1..spawned
  /\ \A p \in Process : output[p] \in 0..MaxOutput
  /\ \A v \in Viewer : Attached(v) => /\ viewer[v].at \in 1..spawned
                                      /\ viewer[v].next \in viewer[v].from .. MaxOutput + 1

\* From its subscription on, a viewer gets every chunk once and in order, save
\* the oldest ones of a channel that overflowed (pty_bridge.rs:221).  Every
\* message it has typed since then has reached its process once and in order, or
\* is still queued, while other viewers come, type and go and other processes
\* take over the session.  Excepted are messages whose write failed, and those
\* that begin with Ctrl-A: these never reach the process (pty_bridge.rs:250).
OutputInOrder(v) ==
  LET w == viewer[v]
  IN  /\ \A i \in 1..(Len(w.got) - 1) : w.got[i] < w.got[i + 1]
      /\ {w.got[i] : i \in DOMAIN w.got} \cup w.skipped = w.from .. (w.next - 1)
      /\ {w.got[i] : i \in DOMAIN w.got} \cap w.skipped = {}
      /\ \A s \in w.skipped : s + Capacity <= output[w.at]
InputInOrder(v) ==
  LET w == viewer[v]
      own == input[w.at][v]
      since == (w.sent + 1)..Len(own)
  IN  /\ \A i, j \in since : i < j => own[i] < own[j]
      /\ {own[i] : i \in since} = 1..(w.typed - Len(w.queue)) \ (w.control \cup w.refused)
ViewersServed == \A v \in Viewer : Attached(v) => OutputInOrder(v) /\ InputInOrder(v)
=============================================================================
