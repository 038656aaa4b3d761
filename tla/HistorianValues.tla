--------------------------- MODULE HistorianValues ---------------------------
(***************************************************************************)
(* What the historian worker does with values: which of the registered     *)
(* tags a session subscribes (the line scope, and the device collection    *)
(* filter that asks Kepware which devices collect data) and how            *)
(* InfluxWriter stores their values, in one database for each line, with a *)
(* cool-down after a failed write.  Data changes are handled on the one    *)
(* thread of the event loop, so that a write is one step; a subscription   *)
(* hands over the latest value of a tag, the present one at first.         *)
(*                                                                         *)
(* A path is its channel and its device; a NodeId is the channel it names  *)
(* and an item.  What a failed subscription or session does to the rebuild *)
(* protocol is HistorianWorker.                                            *)
(***************************************************************************)
EXTENDS Naturals, FiniteSets

CONSTANTS
    Tags,
    Lines,           \* line names; each has its database
    NoLine,          \* a row without a line, a worker without a scope; no database
    Registries,      \* active rows: functions from tags to rows
    ChannelsOf,      \* the channels that match the patterns of a line
    Values,          \* what the OPC server may show of a tag, normalized
    Unwritable,      \* a value that is not a number, text or boolean
    NoValue,         \* nothing stored yet
    MaxValueChanges, \* bound: values changed, devices switched, sessions ended
    MaxFailedWrites  \* bound: writes that fail

ASSUME ValueConstants ==
    /\ NoLine \notin Lines
    /\ ChannelsOf \in [Lines -> SUBSET UNION {{r[t].channel : t \in Tags} : r \in Registries}]
    /\ \A r \in Registries : DOMAIN r = Tags /\ \A t \in Tags : r[t].line \in Lines \cup {NoLine}
    /\ NoValue \notin Values
    /\ {MaxValueChanges, MaxFailedWrites} \subseteq Nat

VARIABLES
    scope,           \* LINE_NAME of the worker
    registry,        \* the active rows of TagMaster
    device,          \* what Kepware says of the data collection of a device
    value,           \* the value of each tag on the OPC server
    session,         \* "off" or "on"
    eligible,        \* the tags of the session
    seenDisabled,    \* history: tags whose device the session read as disabled
    due,             \* tags whose latest value has not been notified yet
    clients,         \* InfluxWriter.clients: the database each is switched to
    cooling,         \* databases whose retry_after has not passed
    stored,          \* the last value of each tag in each database
    missed,          \* history: tags whose latest value was not written
    valueChanges, failedWrites

settings  == <<scope, registry>>
plant     == <<device, value>>
writer    == <<clients, cooling, stored, missed, failedWrites>>
valueVars == <<settings, plant, session, eligible, seenDisabled, due, writer, valueChanges>>

-----------------------------------------------------------------------------
DeviceKey(t) == <<registry[t].channel, registry[t].device>>
DeviceKeys   == {DeviceKey(t) : t \in Tags}
DatabaseOf(t) == registry[t].line

\* Mutant of AllowsTag: the NodeId is not looked at.
AllowsPathOnly(t) == scope # NoLine => registry[t].channel \in ChannelsOf[scope]

\* allows_tag: the channel of the path is one of the line's, and the NodeId
\* names the same channel.
AllowsTag(t) ==
    scope # NoLine => /\ registry[t].channel \in ChannelsOf[scope]
                      /\ registry[t].node[1] = registry[t].channel

\* The rows a session loads.  One without a line, or two of one NodeId, and the
\* session is refused.
Selected == {t \in Tags : scope # NoLine => registry[t].line = scope}
Loaded   == {t \in Selected : AllowsTag(t)}
Refused  == \/ \E t \in Selected : registry[t].line = NoLine
            \/ \E t \in Loaded : \E u \in Loaded \ {t} : registry[t].node = registry[u].node

\* read_device_collection_states, when the channels in `unread' give no answer
\* (all of them, if the list of channels does not): a device that says neither
\* is as unknown as one that cannot be asked.
StateOf(t, unread) == IF registry[t].channel \in unread THEN "unknown" ELSE device[DeviceKey(t)]

\* Mutant of Eligible: a device that cannot be asked is left out.
EligibleIfKnown(unread) == {t \in Loaded : StateOf(t, unread) = "enabled"}

\* _filter_device_collection: only an explicit "disabled" excludes a tag.
Eligible(unread) == {t \in Loaded : StateOf(t, unread) # "disabled"}

\* Nothing has been stored in any database.
Nothing == [d \in Lines |-> [t \in Tags |-> NoValue]]

ValuesInit ==
    /\ scope \in Lines \cup {NoLine} /\ registry \in Registries
    /\ device \in [DeviceKeys -> {"enabled", "disabled", "unknown"}]
    /\ value \in [Tags -> Values]
    /\ session = "off" /\ eligible = {} /\ seenDisabled = {} /\ due = {}
    /\ clients = [d \in Lines |-> NoLine] /\ cooling = {}
    /\ stored = Nothing
    /\ missed = {}
    /\ valueChanges = 0 /\ failedWrites = 0

-----------------------------------------------------------------------------
Changes == valueChanges < MaxValueChanges /\ valueChanges' = valueChanges + 1

ChangeValue(t) ==
    /\ Changes
    /\ \E v \in Values \ {value[t]} : value' = [value EXCEPT ![t] = v]
    /\ due' = due \cup ({t} \cap eligible)
    /\ UNCHANGED <<settings, device, session, eligible, seenDisabled, writer>>

SwitchDevice(k) ==
    /\ Changes
    /\ \E s \in {"enabled", "disabled"} \ {device[k]} : device' = [device EXCEPT ![k] = s]
    /\ UNCHANGED <<settings, value, session, eligible, seenDisabled, due, writer>>

\* run_session: the rows are loaded, the devices asked, and every eligible tag
\* subscribed, of which the first notification is its present value.
BeginSession ==
    /\ session = "off" /\ ~Refused
    /\ \E unread \in SUBSET {registry[t].channel : t \in Loaded} :
         /\ eligible' = Eligible(unread)
         /\ seenDisabled' = {t \in Loaded : StateOf(t, unread) = "disabled"}
    /\ due' = eligible'
    /\ session' = "on"
    /\ UNCHANGED <<settings, plant, writer, valueChanges>>

\* The session ends, by a rebuild or a failure, and its notifications with it;
\* or the process does, and its writer, too.
EndSession ==
    /\ session = "on" /\ Changes
    /\ session' = "off" /\ eligible' = {} /\ seenDisabled' = {} /\ due' = {}
    /\ \/ UNCHANGED <<clients, cooling>>
       \/ clients' = [d \in Lines |-> NoLine] /\ cooling' = {}
    /\ UNCHANGED <<settings, plant, stored, missed, failedWrites>>

-----------------------------------------------------------------------------
\* datachange_notification of a value that cannot be normalized, or while the
\* database cools down: write drops it.  (A path outside the scope it would drop
\* as well, but no such tag is loaded.)
DropValue(t) ==
    /\ t \in due
    /\ value[t] = Unwritable \/ DatabaseOf(t) \in cooling
    /\ due' = due \ {t}
    /\ missed' = missed \cup {t}
    /\ UNCHANGED <<settings, plant, session, eligible, seenDisabled, clients, cooling,
                   stored, failedWrites, valueChanges>>

Writable(t) == t \in due /\ value[t] # Unwritable /\ DatabaseOf(t) \notin cooling

\* Mutant of ClientOf: one client serves every database.
AnyClient(t) ==
    IF \E d \in Lines : clients[d] # NoLine
    THEN CHOOSE d \in Lines : clients[d] # NoLine ELSE DatabaseOf(t)

\* get_client: the client kept for the database, or a new one, which is switched
\* to it.  The database a point goes to is the one its client was switched to.
ClientOf(t) == IF clients[DatabaseOf(t)] # NoLine THEN clients[DatabaseOf(t)] ELSE DatabaseOf(t)

WriteValue(t) ==
    /\ Writable(t)
    /\ clients' = [clients EXCEPT ![DatabaseOf(t)] = ClientOf(t)]
    /\ stored' = [stored EXCEPT ![ClientOf(t)][t] = value[t]]
    /\ due' = due \ {t}
    /\ missed' = missed \ {t}
    /\ UNCHANGED <<settings, plant, session, eligible, seenDisabled, cooling, failedWrites,
                   valueChanges>>

\* Making the client (asking for, creating or switching to the database)
\* fails, and only a client that has been switched is kept; or writing the point
\* does, which may have arrived all the same.
WriteFails(t) ==
    /\ Writable(t)
    /\ failedWrites < MaxFailedWrites /\ failedWrites' = failedWrites + 1
    /\ \/ clients[DatabaseOf(t)] = NoLine /\ UNCHANGED <<clients, stored>>
       \/ /\ clients' = [clients EXCEPT ![DatabaseOf(t)] = ClientOf(t)]
          /\ stored' \in {stored, [stored EXCEPT ![ClientOf(t)][t] = value[t]]}
    /\ cooling' = cooling \cup {DatabaseOf(t)}
    /\ due' = due \ {t}
    /\ missed' = missed \cup {t}
    /\ UNCHANGED <<settings, plant, session, eligible, seenDisabled, valueChanges>>

CooldownEnds(d) ==
    /\ d \in cooling
    /\ cooling' = cooling \ {d}
    /\ UNCHANGED <<settings, plant, session, eligible, seenDisabled, due, clients, stored,
                   missed, failedWrites, valueChanges>>

ValuesNext ==
    \/ \E t \in Tags : ChangeValue(t) \/ DropValue(t) \/ WriteValue(t) \/ WriteFails(t)
    \/ \E k \in DeviceKeys : SwitchDevice(k)
    \/ BeginSession \/ EndSession
    \/ \E d \in Lines : CooldownEnds(d)

ValuesSpec == ValuesInit /\ [][ValuesNext]_valueVars

-----------------------------------------------------------------------------
\* A value is stored in the database of the line its row names, and nowhere
\* else, whatever clients were made before; and a worker with a scope stores
\* only what a node of its own line's channels showed, whatever the row says.
PointsAreOfTheLine ==
    \A d \in Lines, t \in Tags : stored[d][t] # NoValue =>
        /\ d = registry[t].line
        /\ scope # NoLine => d = scope /\ registry[t].node[1] \in ChannelsOf[scope]

\* A silent Kepware, a failed write or a new session leaves no tag behind: once
\* the notifications have been handled, what is stored of a tag of the session's
\* rows is what the OPC server shows, unless its device was read as disabled,
\* or the last write of it was refused or failed.
LatestValuesAreStored ==
    session = "on" /\ due = {} =>
        \A t \in Loaded \ (seenDisabled \cup missed) : stored[DatabaseOf(t)][t] = value[t]
=============================================================================
