----------------------------- MODULE McpChannel -----------------------------
(***************************************************************************)
(* The channel between the broker and one MCP server (mcp.py): a child     *)
(* process, its standard output read line by line, and the two locks of    *)
(* the registry.  A caller wants the list of tools (tools_for, warm_up) or *)
(* the answer of a tool (call); the former takes `_lock` only, the latter  *)
(* `_call_lock` and, inside it, `_lock`.                                   *)
(*                                                                         *)
(* A line is the answer to a request, by its number, or 0: a notification  *)
(* or text that is no JSON.  A caller finds the process started, writes    *)
(* its request and begins to read in one step: others run while the write  *)
(* is drained, but none of them replaces the process in that moment, which *)
(* takes the end of a child and the start of another; and a caller that    *)
(* finds the process gone fails as one that is cut short does.             *)
(***************************************************************************)
EXTENDS Integers, Sequences, FiniteSets

CONSTANTS Callers,
          Processes,   \* children that the system can start, one by one
          NoiseLimit,  \* lines that a reader may discard
          Upsets       \* BOUND: lines of noise and deaths of the server

ASSUME ChannelAssumption ==
  Processes \in Nat /\ NoiseLimit \in Nat /\ Upsets \in Nat

VARIABLES caller,    \* caller[c]: where it is, what it asked, of whom
          child,     \* child[p]: alive, the requests it owes, its output
          spawned,   \* the number of children so far
          current,   \* server.process: a child, or 0
          started,   \* server.started
          counter,   \* server._counter
          starting,  \* the holder of `_lock`, or a set of none
          calling,   \* the holder of `_call_lock`, likewise
          upsets

channelVars == <<caller, child, spawned, current, started, counter, starting, calling, upsets>>

Handshake == {"spawn", "hello", "list"}
Reading == {"hello", "list", "read"}
Ended == {"answered", "failed", "uncaught"}

Idle == [at |-> "idle", wants |-> "tools", asked |-> 0, from |-> 0, noise |-> 0, was |-> "idle"]
Unborn == [alive |-> FALSE, owes |-> {}, output |-> << >>]

ChannelInit ==
  /\ caller = [c \in Callers |-> Idle]
  /\ child = [p \in 1..Processes |-> Unborn]
  /\ spawned = 0 /\ current = 0 /\ started = FALSE /\ counter = 0
  /\ starting = {} /\ calling = {} /\ upsets = 0

CallerAt(c, places) == caller[c].at \in places
Alive(p) == p # 0 /\ child[p].alive
Breaks(c) == [caller EXCEPT ![c].at = "failing", ![c].was = caller[c].at]
Steps(c, at) == caller' = [caller EXCEPT ![c].at = at]
Killed(p) == [child EXCEPT ![p].alive = FALSE, ![p].owes = {}]
\* Faulty: the server is only marked as stopped.
Spared == child

KilledCurrent == IF current = 0 THEN child ELSE Killed(current)

(* _request: a new number, the line written, and the reading of p begun.    *)
Sends(c, at, p) ==
  /\ counter' = counter + 1
  /\ caller' = [caller EXCEPT ![c] = [@ EXCEPT !.at = at, !.asked = counter + 1,
                                              !.from = p, !.noise = 0]]

---------------------------------------------------------------------------
BeginCall(c) ==
  /\ CallerAt(c, {"idle"})
  /\ \E wants \in {"tools", "call"} :
       caller' = [caller EXCEPT ![c].wants = wants,
                                ![c].at = IF wants = "call" THEN "queue" ELSE "start"]
  /\ UNCHANGED <<child, spawned, current, started, counter, starting, calling, upsets>>

TakeCallLock(c) ==
  /\ CallerAt(c, {"queue"}) /\ calling = {}
  /\ calling' = calling \cup {c}
  /\ Steps(c, "start")
  /\ UNCHANGED <<child, spawned, current, started, counter, starting, upsets>>

(* What follows _ensure_started: the list is known, or the tool is asked.   *)
Proceed(c) ==
  IF caller[c].wants = "call"
  THEN Sends(c, "read", current) /\ child' = [child EXCEPT ![current].owes = @ \cup {counter'}]
  ELSE Steps(c, "answered") /\ UNCHANGED <<counter, child>>

(* _ensure_started: nothing to do, or stop what is left and start anew.     *)
FindStarted(c) ==
  /\ CallerAt(c, {"start"}) /\ starting = {}
  /\ started /\ Alive(current)
  /\ Proceed(c)
  /\ UNCHANGED <<spawned, current, started, starting, calling, upsets>>
StopOld(c) ==
  /\ CallerAt(c, {"start"}) /\ starting = {}
  /\ ~(started /\ Alive(current))
  /\ starting' = {c} /\ Steps(c, "spawn")
  /\ child' = KilledCurrent /\ current' = 0 /\ started' = FALSE
  /\ UNCHANGED <<spawned, counter, calling, upsets>>
Spawn(c) ==
  /\ CallerAt(c, {"spawn"}) /\ spawned < Processes
  /\ spawned' = spawned + 1 /\ current' = spawned + 1
  /\ Sends(c, "hello", spawned + 1)
  /\ child' = [child EXCEPT ![spawned + 1] = [Unborn EXCEPT !.alive = TRUE, !.owes = {counter'}]]
  /\ UNCHANGED <<started, starting, calling, upsets>>
SpawnFails(c) ==
  /\ CallerAt(c, {"spawn"})
  /\ caller' = Breaks(c)
  /\ UNCHANGED <<child, spawned, current, started, counter, starting, calling, upsets>>

---------------------------------------------------------------------------
(* _read_response: a line is the answer, or noise up to a limit.            *)
Line(c) == Head(child[caller[c].from].output)
HasLine(c) == CallerAt(c, Reading) /\ child[caller[c].from].output # << >>
Taken(c) == [child EXCEPT ![caller[c].from].output = Tail(@)]
(* The part of a line that had arrived is dropped; the rest comes as noise. *)
Cut(c) == [child EXCEPT ![caller[c].from].output = <<0>> \o Tail(@)]

Discard(c) ==
  /\ HasLine(c) /\ Line(c) # caller[c].asked
  /\ child' = Taken(c)
  /\ caller' = IF caller[c].noise < NoiseLimit
               THEN [caller EXCEPT ![c].noise = @ + 1]
               ELSE Breaks(c)
  /\ UNCHANGED <<spawned, current, started, counter, starting, calling, upsets>>

(* The answer to initialize is followed by tools/list, its answer by what   *)
(* the caller wanted, and the answer of a tool, its error too, ends it.     *)
HelloAnswered(c) ==
  /\ CallerAt(c, {"hello"}) /\ HasLine(c) /\ Line(c) = caller[c].asked
  /\ Sends(c, "list", current)
  /\ child' = [Taken(c) EXCEPT ![current].owes = @ \cup {counter'}]
  /\ UNCHANGED <<spawned, current, started, starting, calling, upsets>>
ListAnswered(c) ==
  /\ CallerAt(c, {"list"}) /\ HasLine(c) /\ Line(c) = caller[c].asked
  /\ started' = TRUE /\ starting' = {}
  /\ IF caller[c].wants = "call"
     THEN /\ Sends(c, "read", current)
          /\ child' = [Taken(c) EXCEPT ![current].owes = @ \cup {counter'}]
     ELSE Steps(c, "answered") /\ child' = Taken(c) /\ UNCHANGED counter
  /\ UNCHANGED <<spawned, current, calling, upsets>>
CallAnswered(c) ==
  /\ CallerAt(c, {"read"}) /\ HasLine(c) /\ Line(c) = caller[c].asked
  /\ child' = Taken(c)
  /\ Steps(c, "answered") /\ calling' = calling \ {c}
  /\ UNCHANGED <<spawned, current, started, counter, starting, upsets>>

(* The output ended: the reader itself takes the server for stopped.        *)
EndOfOutput(c) ==
  /\ CallerAt(c, Reading) /\ ~HasLine(c) /\ ~Alive(caller[c].from)
  /\ started' = FALSE
  /\ caller' = Breaks(c)
  /\ UNCHANGED <<child, spawned, current, counter, starting, calling, upsets>>
(* A line above the limit of the stream, dropped whole or in part, or an    *)
(* answer of a shape nobody expects, raises what no handler catches: the    *)
(* locks are left, and the process goes on with whatever it still owes.     *)
Uncaught(c) ==
  /\ HasLine(c)
  /\ child' \in {Taken(c), Cut(c)}
  /\ Steps(c, "uncaught")
  /\ starting' = starting \ {c} /\ calling' = calling \ {c}
  /\ UNCHANGED <<spawned, current, started, counter, upsets>>
(* The time is over, or the task that called is cancelled.                  *)
CutShort(c) ==
  /\ CallerAt(c, Reading \cup {"spawn"})
  /\ caller' = Breaks(c)
  /\ UNCHANGED <<child, spawned, current, started, counter, starting, calling, upsets>>
LeaveQueue(c) ==
  /\ CallerAt(c, {"queue", "start"})
  /\ Steps(c, "failed") /\ calling' = calling \ {c}
  /\ UNCHANGED <<child, spawned, current, started, counter, starting, upsets>>

(* The handlers run later, when the reader's own task has ended: they kill  *)
(* the process of the server as it is then.                                 *)
CallFails(c) ==
  /\ CallerAt(c, {"failing"}) /\ caller[c].was = "read"
  /\ child' = KilledCurrent /\ started' = FALSE
  /\ Steps(c, "failed") /\ calling' = calling \ {c}
  /\ UNCHANGED <<spawned, current, counter, starting, upsets>>
StartFails(c) ==
  /\ CallerAt(c, {"failing"}) /\ caller[c].was \in Handshake
  /\ child' = KilledCurrent /\ current' = 0 /\ started' = FALSE /\ starting' = {}
  /\ Steps(c, "failed") /\ calling' = calling \ {c}
  /\ UNCHANGED <<spawned, counter, upsets>>

---------------------------------------------------------------------------
(* The server answers what it owes in any order, writes noise, or dies.     *)
ServerAnswers(p) ==
  /\ child[p].alive
  /\ \E id \in child[p].owes :
       child' = [child EXCEPT ![p].owes = @ \ {id}, ![p].output = Append(@, id)]
  /\ UNCHANGED <<caller, spawned, current, started, counter, starting, calling, upsets>>
ServerUpset(p) ==
  /\ child[p].alive /\ upsets < Upsets
  /\ upsets' = upsets + 1
  /\ child' \in {Killed(p), [child EXCEPT ![p].output = Append(@, 0)]}
  /\ UNCHANGED <<caller, spawned, current, started, counter, starting, calling>>

ChannelNext ==
  \/ \E c \in Callers :
       \/ BeginCall(c) \/ TakeCallLock(c) \/ FindStarted(c) \/ StopOld(c)
       \/ Spawn(c) \/ SpawnFails(c) \/ Discard(c) \/ HelloAnswered(c)
       \/ ListAnswered(c) \/ CallAnswered(c) \/ EndOfOutput(c) \/ Uncaught(c)
       \/ CutShort(c) \/ LeaveQueue(c) \/ CallFails(c) \/ StartFails(c)
  \/ \E p \in 1..Processes : ServerAnswers(p) \/ ServerUpset(p)

ChannelSpec == ChannelInit /\ [][ChannelNext]_channelVars
=============================================================================
