----------------------------- MODULE Ping1dNode -----------------------------
(* ping1d_sonar: the node Ping1dComponent, which asks a Ping1D sounder six things *)
(* ten times a second and hands it the parameters it is given, with the library   *)
(* brping below it (device.py, ping1d.py).  Everything of the node runs in one    *)
(* thread; the sounder answers in its own time, over a serial line that may lose  *)
(* a message.  The sounder itself is not part of the repository.                  *)
EXTENDS Naturals, Sequences, FiniteSets, SequencesExt

CONSTANTS
    Values,         \* values of a parameter that its message can carry
    TooWide,        \* one that it cannot: struct.pack raises an exception
    Automatic,      \* the value of the mode in which the sounder chooses gain and range itself
    Tuned,          \* the parameters that are set while the node runs
    MaxTimeouts,    \* bound: requests that time out
    MaxLost,        \* bound: messages to the sounder that are lost
    MaxCalls,       \* bound: callbacks
    MaxChosen       \* bound: changes that the sounder makes by itself

Params == {"speed", "interval", "gain", "range", "mode"}
ASSUME SounderAssumption ==
    /\ Tuned \subseteq Params /\ TooWide \notin Values /\ Automatic \in Values
    /\ MaxTimeouts \in Nat /\ MaxLost \in Nat /\ MaxCalls \in Nat /\ MaxChosen \in Nat

VARIABLES
    phase,          \* what the thread runs: "start", "idle", "timer", "set", or "dead"
    todo,           \* what is left of it: [set, what, value]
    waiting,        \* the message wait_message waits for, or "nothing"
    values,         \* speed_, interval_num_, gain_num_, mode_auto_, (scan_start_, scan_lenght_)
    attributes,     \* the attributes of Ping1D that answers are written to
    simple_data, range_data,    \* what the timer callback has: 0 and "None" without an answer
    inbox,          \* messages on their way to the sounder
    outbox,         \* answers on their way back: [id, fields]
    settings,       \* the parameters of the sounder
    calls,          \* the callbacks so far
    published,      \* the last Range: the distance and the range in it
    drifted,        \* history: parameters that the sounder chose after it took the last value
    hadRanges,      \* history: the ranges it had since the last range_callback began
    unverified,     \* parameters whose last set_... returned False, which nobody reads
    timeouts, lost, \* requests timed out, messages lost
    chosen          \* changes that the sounder has made by itself

sounderVars == <<phase, todo, waiting, values, attributes, simple_data, range_data, inbox, outbox,
                 settings, calls, published, drifted, hadRanges, unverified, timeouts, lost, chosen>>
sounder == <<settings, drifted, hadRanges, chosen>>

-----------------------------------------------------------------------------
(* brping.  handle_message writes each field of an answer to the attribute of the field's *)
(* name, whatever the message: general_info has three fields of other messages.           *)

Attributes == Params \cup {"distance"}
Fields(id) == CASE id = "general_info" -> {"interval", "gain", "mode"}
                [] id = "protocol_version" -> {}
                [] OTHER -> {id}

Get(id) == [set |-> FALSE, what |-> id, value |-> TooWide]
Set(p, v) == [set |-> TRUE, what |-> p, value |-> v]

\* initialize, and the parameters handed over by the constructor
Named == <<"speed", "interval", "gain", "range", "mode">>
StartUp(given) == <<Get("protocol_version"), Get("general_info")>>
                  \o [k \in 1..5 |-> Set(Named[k], given[Named[k]])]
\* what range_callback asks for
Readings == <<Get("distance"), Get("range"), Get("gain"), Get("speed"), Get("interval"),
              Get("mode")>>

\* The mode is handed over by the launch file, as manual or auto.
SounderInit ==
    /\ phase = "start" /\ waiting = "nothing"
    /\ values \in {[[p \in Params |-> "default"] EXCEPT !["mode"] = m] : m \in Values}
    /\ todo = StartUp(values)
    /\ attributes = [a \in Attributes |-> IF a = "distance" THEN 0 ELSE "None"]
    /\ simple_data = 0 /\ range_data = "None"
    /\ inbox = <<>> /\ outbox = <<>>
    /\ settings \in {[p \in Params |-> v] : v \in Values}
    /\ calls = 0 /\ drifted = {} /\ chosen = 0 /\ hadRanges = {settings["range"]}
    /\ published = [distance |-> 0, range |-> "None", call |-> 0]
    /\ unverified = {} /\ timeouts = 0 /\ lost = 0

Op == Head(todo)

\* get_... and set_...: the request, after the new value; the value is the node's own by then.
Ask ==
    /\ todo # <<>> /\ waiting = "nothing" /\ phase # "dead"
    /\ values' = IF Op.set THEN [values EXCEPT ![Op.what] = Op.value] ELSE values
    /\ IF Op.set /\ Op.value = TooWide
       THEN phase' = "dead" /\ UNCHANGED <<inbox, waiting>>
       ELSE /\ inbox' = inbox \o (IF Op.set THEN <<Op>> ELSE <<>>) \o <<Get(Op.what)>>
            /\ waiting' = Op.what
            /\ UNCHANGED phase
    /\ UNCHANGED <<todo, attributes, simple_data, range_data, outbox, sounder, calls, published,
                   unverified, timeouts, lost>>

\* Mutants: a set_... fails only without an answer; without one, the last reading stays.
FailedUnanswered(answered, attrs) == ~answered
ReadingKept(id, old, none, answered, attrs) ==
    IF Op = Get(id) /\ answered THEN attrs[id] ELSE old

\* set_... returns False without an answer, and if the answer has another value.
Failed(answered, attrs) == ~answered \/ attrs[Op.what] # Op.value

\* get_... returns the attribute, or None.
Reading(id, old, none, answered, attrs) ==
    IF Op # Get(id) THEN old ELSE IF answered THEN attrs[id] ELSE none

\* What the operation returns, and what is done with it.  A start without an answer to
\* initialize ends the process.
Return(answered, attrs) ==
    /\ waiting' = "nothing"
    /\ todo' = Tail(todo)
    /\ phase' = CASE phase = "start" /\ ~Op.set /\ ~answered -> "dead"
                  [] phase \in {"start", "set"} /\ Len(todo) = 1 -> "idle"
                  [] OTHER -> phase
    /\ simple_data' = Reading("distance", simple_data, 0, answered, attrs)
    /\ range_data' = Reading("range", range_data, "None", answered, attrs)
    /\ unverified' = IF ~Op.set THEN unverified
                     ELSE IF Failed(answered, attrs) THEN unverified \cup {Op.what} ELSE unverified \ {Op.what}

\* wait_message reads the next message and handles it; the one it waits for ends the wait,
\* whichever request it answers.
HandleMessage ==
    /\ waiting # "nothing" /\ outbox # <<>>
    /\ LET m == Head(outbox)
           attrs == [a \in Attributes |-> IF a \in Fields(m.id) THEN m.fields[a]
                                          ELSE attributes[a]]
       IN  /\ attributes' = attrs
           /\ IF m.id = waiting THEN Return(TRUE, attrs)
              ELSE UNCHANGED <<waiting, todo, phase, simple_data, range_data, unverified>>
    /\ outbox' = Tail(outbox)
    /\ UNCHANGED <<values, inbox, sounder, calls, published, timeouts, lost>>

\* Half a second has passed and nothing has come.
Timeout ==
    /\ waiting # "nothing" /\ outbox = <<>> /\ timeouts < MaxTimeouts
    /\ timeouts' = timeouts + 1
    /\ Return(FALSE, attributes)
    /\ UNCHANGED <<values, attributes, inbox, outbox, sounder, calls, published, lost>>

-----------------------------------------------------------------------------
(* The sounder. It has what it was last given, but in auto mode it selects the gain and the *)
(* scan range for itself, whenever it likes (ping1d.py, tools/ping1d-simulation.py).        *)

Measure == [a \in Attributes |-> IF a = "distance" THEN calls ELSE settings[a]]

Answer ==
    /\ inbox # <<>>
    /\ LET m == Head(inbox) IN
       IF m.set
       THEN /\ settings' = [settings EXCEPT ![m.what] = m.value]
            /\ drifted' = drifted \ {m.what} /\ hadRanges' = hadRanges \cup {settings'["range"]}
            /\ UNCHANGED <<outbox, chosen>>
       ELSE outbox' = Append(outbox, [id |-> m.what, fields |-> Measure]) /\ UNCHANGED sounder
    /\ inbox' = Tail(inbox)
    /\ UNCHANGED <<phase, todo, waiting, values, attributes, simple_data, range_data, calls,
                   published, unverified, timeouts, lost>>

ChooseItself ==
    /\ settings["mode"] = Automatic /\ chosen < MaxChosen
    /\ chosen' = chosen + 1
    /\ \E p \in {"gain", "range"} : \E v \in Values \ {settings[p]} :
           settings' = [settings EXCEPT ![p] = v] /\ drifted' = drifted \cup {p}
    /\ hadRanges' = hadRanges \cup {settings'["range"]}
    /\ UNCHANGED <<phase, todo, waiting, values, attributes, simple_data, range_data, inbox, outbox,
                   calls, published, unverified, timeouts, lost>>

\* A message does not arrive, or the sounder does not take the value.
LoseRequest ==
    /\ inbox # <<>> /\ lost < MaxLost
    /\ inbox' = Tail(inbox)
    /\ lost' = lost + 1
    /\ UNCHANGED <<phase, todo, waiting, values, attributes, simple_data, range_data, outbox,
                   sounder, calls, published, unverified, timeouts>>

-----------------------------------------------------------------------------
(* The callbacks of the node *)

\* range_callback, which the timer starts
RangeCallback ==
    /\ phase = "idle" /\ calls < MaxCalls
    /\ phase' = "timer"
    /\ todo' = Readings
    /\ calls' = calls + 1 /\ hadRanges' = {settings["range"]}
    /\ UNCHANGED <<waiting, values, attributes, simple_data, range_data, inbox, outbox, settings,
                   drifted, chosen, published, unverified, timeouts, lost>>

\* The end of range_callback: without the distance or the range it raises an exception, which
\* ends the node.
Publish ==
    /\ phase = "timer" /\ todo = <<>>
    /\ IF simple_data = 0 \/ range_data = "None"
       THEN phase' = "dead" /\ UNCHANGED published
       ELSE /\ phase' = "idle"
            /\ published' = [distance |-> simple_data, range |-> range_data, call |-> calls]
    /\ UNCHANGED <<todo, waiting, values, attributes, simple_data, range_data, inbox, outbox,
                   sounder, calls, unverified, timeouts, lost>>

\* set_param_callback, with one parameter or two
SetParamCallback ==
    /\ phase = "idle" /\ calls < MaxCalls
    /\ \E p, q \in Tuned, v, w \in Values \cup {TooWide} :
           todo' = IF p = q THEN <<Set(p, v)>> ELSE <<Set(p, v), Set(q, w)>>
    /\ phase' = "set"
    /\ calls' = calls + 1
    /\ UNCHANGED <<waiting, values, attributes, simple_data, range_data, inbox, outbox, sounder,
                   published, unverified, timeouts, lost>>

SounderNext == \/ Ask \/ HandleMessage \/ Timeout \/ Answer \/ ChooseItself \/ LoseRequest
               \/ RangeCallback \/ Publish \/ SetParamCallback
SounderSpec == SounderInit /\ [][SounderNext]_sounderVars

-----------------------------------------------------------------------------
\* A distance that is published was measured for this very callback, though answers may come
\* late and wait_message takes any message of the right kind: a late answer is read by a later
\* request of its own callback, and a callback without an answer ends the node.  The limits
\* beside it are some that the sounder had during the callback, unless a request has timed out:
\* in auto mode it may have moved them since, and before the distance was measured.
PublishedFresh ==
    [][published' # published =>
          /\ published'.distance = published'.call
          /\ timeouts = 0 => published'.range \in hadRanges]_sounderVars

\* Between the callbacks the sounder has the parameters that the node has and publishes
\* (set_param_callback, the topics param/...), unless the set_... said that it has not, which
\* nobody reads, or more than one request has timed out; and but for those that the sounder has
\* chosen itself in auto mode, which it keeps when it is switched to manual mode.  When nothing
\* was lost or late, a set_... that said so is always one of these.
SettingsHeld ==
    phase = "idle" =>
        /\ timeouts <= 1 => \A p \in Params \ (unverified \cup drifted) : settings[p] = values[p]
        /\ timeouts = 0 /\ lost = 0 => unverified \subseteq drifted
=============================================================================
