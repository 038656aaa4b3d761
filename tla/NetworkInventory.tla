-------------------------- MODULE NetworkInventory --------------------------
(***************************************************************************)
(* The OT network inventory (services/network_inventory.py): scans of the  *)
(* configured networks that append to history tables, manual records, and  *)
(* the current view, which merges the tables and decides which addresses   *)
(* look free.  A scan is one HTTP request on a thread of its own; `lock'   *)
(* lets one scan run at a time.  A view runs its queries one after the     *)
(* other on a connection that does not isolate them from each other, so a  *)
(* scan or a manual record may be committed between two of them.           *)
(*                                                                         *)
(* A network stands for its NetworkId; a table row for the run it belongs  *)
(* to.  What a probe found at an address is a set of traits: "online",     *)
(* "mac", "name", "error"; vendors, device types, names and times, and the *)
(* two queries of the view that only serve them, are left out.  So are the *)
(* rows without a NetworkId: nothing writes them any more, and the view    *)
(* never calls one of their addresses free.                                *)
(***************************************************************************)
EXTENDS Integers, Sequences, FiniteSets, SequencesExt, FiniteSetsExt

CONSTANTS
  Networks,      \* the configured networks, by NetworkId
  Addresses,     \* the addresses of their ranges
  Scanners,      \* the requests that scan
  Unassigned,    \* no request, no profiles loaded
  Configs,       \* the configurations: functions from some networks to ranges
  Pings,         \* what the ICMP probe of one address may find
  MaxRuns,       \* bound: runs saved
  MaxEvents      \* bound: manual records and restarts of the application

ASSUME InventoryConstants ==
  /\ IsFiniteSet(Networks) /\ IsFiniteSet(Addresses)
  /\ Unassigned \notin Scanners \cup Configs
  /\ \A c \in Configs : DOMAIN c \subseteq Networks
                        /\ \A n \in DOMAIN c : c[n] \in SUBSET Addresses \ {{}}
  /\ Pings \subseteq SUBSET {"online", "name", "error"}
  /\ {MaxRuns, MaxEvents} \subseteq Nat

VARIABLES
  config,        \* the ranges in the configuration file, read at the start
  rows,          \* OTNetworkProfile: network -> its range, and the enabled ones
  profiles,      \* _profiles: the networks in use, Unassigned before the first use
  runs,          \* NetworkInventoryRun with its scan and Kepware rows, oldest first
  manuals,       \* NetworkDeviceManualHistory: <<network, address>>
  scanLock,      \* lock: the request that scans
  scan,          \* the locals of that request
  progress,      \* _progress
  view,          \* the locals of one request for the current view
  boots

profileVars == <<config, rows, profiles>>
tables == <<runs, manuals>>
scanVars == <<scanLock, scan, progress>>
inventoryVars == <<profileVars, tables, scanVars, view, boots>>

Result == SUBSET {"online", "mac", "name", "error"}

NoScan == [at |-> "none", todo |-> {}, left |-> {}, network |-> Unassigned,
           complete |-> FALSE, devices |-> {}, found |-> << >>, baseline |-> 0,
           all |-> {}, saved |-> 0]
NoView == [at |-> "none", network |-> Unassigned, before |-> {},
           scans |-> << >>, manuals |-> {}, devices |-> {}, known |-> {},
           free |-> {}]

Idle == [status |-> "idle", scanned |-> 0, total |-> 0]

InventoryInit ==
  /\ config \in Configs
  /\ rows = << >> /\ profiles = Unassigned
  /\ runs = << >> /\ manuals = {}
  /\ scanLock = Unassigned /\ scan = NoScan /\ progress = Idle
  /\ view = NoView /\ boots = 0

-----------------------------------------------------------------------------
(* The profiles. *)

\* sync_profiles: rows are matched by name, new ones inserted, changed ones
\* updated and enabled, and the enabled ones that left the file disabled.
Synced(existing, configured) ==
  [n \in DOMAIN existing \cup DOMAIN configured |->
     IF n \in DOMAIN configured THEN [range |-> configured[n], enabled |-> TRUE]
     ELSE [existing[n] EXCEPT !.enabled = FALSE]]

\* `networks', on first use: under profile_lock, in one transaction.  When it
\* fails _profiles stays None and the next use tries again.
LoadProfiles ==
  /\ profiles = Unassigned
  /\ rows' = Synced(rows, config)
  /\ profiles' = config
  /\ UNCHANGED <<config, tables, scanVars, view, boots>>

-----------------------------------------------------------------------------
(* A scan. *)

\* The addresses of some networks: one of several networks is one of each.
AddressesOf(networks) == {p \in networks \X Addresses : p[2] \in profiles[p[1]]}

\* `scan' takes the networks asked for, then the lock without waiting: a
\* request that finds it taken is refused and changes nothing.
ScanBegins(s) ==
  /\ profiles /= Unassigned /\ scanLock = Unassigned
  /\ \E chosen \in {{n} : n \in DOMAIN profiles} \cup {DOMAIN profiles} :
       /\ Len(runs) + Cardinality(chosen) <= MaxRuns
       /\ scan' = [NoScan EXCEPT !.at = "next", !.todo = chosen, !.all = chosen]
       /\ progress' = [status |-> "running", scanned |-> 0, total |-> Cardinality(AddressesOf(chosen))]
  /\ scanLock' = s
  /\ UNCHANGED <<profileVars, tables, view, boots>>

\* Mutant of Snapshot: every network counts from zero.
SnapshotFromZero(s) ==
  /\ scanLock = s /\ scan.at = "next" /\ scan.todo /= {}
  /\ LET n == CHOOSE x \in scan.todo : TRUE
     IN \E complete \in BOOLEAN :
        \E devices \in (IF complete THEN SUBSET profiles[n] ELSE {{}}) :
          scan' = [scan EXCEPT !.at = "probe", !.network = n, !.left = profiles[n],
                               !.complete = complete, !.devices = devices,
                               !.found = << >>, !.baseline = 0]
  /\ UNCHANGED <<profileVars, tables, scanLock, progress, view, boots>>

\* scan_network begins: kepware_snapshot reads the devices, and when that fails
\* the run goes on without them and says so.  `baseline' is the progress so far.
Snapshot(s) ==
  /\ scanLock = s /\ scan.at = "next" /\ scan.todo /= {}
  /\ LET n == CHOOSE x \in scan.todo : TRUE
     IN \E complete \in BOOLEAN :
        \E devices \in (IF complete THEN SUBSET profiles[n] ELSE {{}}) :
          scan' = [scan EXCEPT !.at = "probe", !.network = n, !.left = profiles[n],
                               !.complete = complete, !.devices = devices,
                               !.found = << >>, !.baseline = progress.scanned]
  /\ UNCHANGED <<profileVars, tables, scanLock, progress, view, boots>>

\* One address is probed and counted, in the order of the range.
Probe(s) ==
  /\ scanLock = s /\ scan.at = "probe" /\ scan.left /= {}
  /\ LET a == CHOOSE x \in scan.left : TRUE
     IN \E ping \in Pings :
          scan' = [scan EXCEPT !.left = @ \ {a},
                               !.found = [x \in DOMAIN @ \cup {a} |-> IF x = a THEN ping ELSE @[x]]]
  /\ progress' = [progress EXCEPT
                    !.scanned = scan.baseline + Cardinality(DOMAIN scan.found) + 1]
  /\ UNCHANGED <<profileVars, tables, scanLock, view, boots>>

\* collect_neighbors, after the last probe: the neighbour table gives some
\* addresses a MAC, or reading it failed and every result carries the error.
CollectNeighbors(s) ==
  /\ scanLock = s /\ scan.at = "probe" /\ scan.left = {}
  /\ \E trait \in {"mac", "error"} :
     \E seen \in (IF trait = "mac" THEN SUBSET DOMAIN scan.found ELSE {DOMAIN scan.found}) :
       scan' = [scan EXCEPT !.at = "save",
                            !.found = [a \in DOMAIN @ |->
                                         @[a] \cup (IF a \in seen THEN {trait} ELSE {})]]
  /\ UNCHANGED <<profileVars, tables, scanLock, progress, view, boots>>

\* persist: the run, its scan rows and its devices in one transaction, and
\* only when every address of the range has its row.
Persist(s) ==
  /\ scanLock = s /\ scan.at = "save"
  /\ DOMAIN scan.found = profiles[scan.network]
  /\ runs' = Append(runs, [network |-> scan.network, complete |-> scan.complete,
                           scans |-> scan.found, devices |-> scan.devices])
  /\ scan' = [NoScan EXCEPT !.at = "next", !.todo = scan.todo \ {scan.network},
                            !.all = scan.all, !.saved = scan.saved + 1]
  /\ UNCHANGED <<profileVars, manuals, scanLock, progress, view, boots>>

\* After the last network the progress says so, and the lock is released.
ScanCompletes(s) ==
  /\ scanLock = s /\ scan.at = "next" /\ scan.todo = {}
  /\ progress' = [progress EXCEPT !.status = "completed"]
  /\ scanLock' = Unassigned
  /\ scan' = [NoScan EXCEPT !.all = scan.all, !.saved = scan.saved]
  /\ UNCHANGED <<profileVars, tables, view, boots>>

\* A probe, the neighbour table or the transaction raises: what was saved
\* before it stays, the network at hand saves nothing.
ScanFails(s) ==
  /\ scanLock = s /\ scan.at \in {"probe", "save"}
  /\ progress' = [progress EXCEPT !.status = "error"]
  /\ scanLock' = Unassigned
  /\ scan' = [NoScan EXCEPT !.all = scan.all, !.saved = scan.saved]
  /\ UNCHANGED <<profileVars, tables, view, boots>>

\* save_manual: one row, for an address of a network in use.
SaveManual ==
  /\ profiles /= Unassigned /\ Cardinality(manuals) + boots < MaxEvents
  /\ \E n \in DOMAIN profiles : \E a \in profiles[n] : manuals' = manuals \cup {<<n, a>>}
  /\ UNCHANGED <<profileVars, runs, scanVars, view, boots>>

-----------------------------------------------------------------------------
(* The current view of one network: the queries of store.current in order. *)

RunsOf(n) == SelectSeq(runs, LAMBDA r : r.network = n)

\* The latest scan row of every address.
LatestScans(n) ==
  LET own == RunsOf(n)
      covered == UNION {DOMAIN own[i].scans : i \in DOMAIN own}
  IN [a \in covered |->
        own[Max({i \in DOMAIN own : a \in DOMAIN own[i].scans})].scans[a]]

\* The devices of the latest run whose Kepware snapshot was complete.
LatestDevices(n) ==
  LET complete == SelectSeq(RunsOf(n), LAMBDA r : r.complete)
  IN IF complete = << >> THEN {} ELSE Last(complete).devices

ManualsOf(n) == {a \in Addresses : <<n, a>> \in manuals}

\* Mutant of Evidence: the latest scan rows in place of the whole history.
EvidenceOfLatest(n) ==
  {a \in DOMAIN LatestScans(n) : LatestScans(n)[a] \cap {"online", "mac", "name"} /= {}}
  \cup LatestDevices(n) \cup ManualsOf(n)

\* Known = 1 in the evidence query: any row of any run, any device, any record.
Evidence(n) ==
  LET own == {r \in Range(runs) : r.network = n}
  IN UNION {{a \in DOMAIN r.scans : r.scans[a] \cap {"online", "mac", "name"} /= {}} \cup r.devices
              : r \in own}
     \cup ManualsOf(n)

\* The last run of the network, whose snapshot decides about every row.
LastComplete(n) == LET own == RunsOf(n) IN own /= << >> /\ Last(own).complete

ViewBegins ==
  /\ profiles /= Unassigned /\ view.at \in {"none", "shown"}
  /\ \E n \in DOMAIN profiles :
       view' = [NoView EXCEPT !.at = "manuals", !.network = n, !.before = Evidence(n),
                              !.scans = LatestScans(n)]
  /\ UNCHANGED <<profileVars, tables, scanVars, boots>>

ViewReads(at, then, read) ==
  /\ view.at = at /\ view' = [read EXCEPT !.at = then]
  /\ UNCHANGED <<profileVars, tables, scanVars, boots>>

ReadManuals == ViewReads("manuals", "devices", [view EXCEPT !.manuals = ManualsOf(view.network)])
ReadDevices == ViewReads("devices", "evidence", [view EXCEPT !.devices = LatestDevices(view.network)])
ReadEvidence == ViewReads("evidence", "runs", [view EXCEPT !.known = Evidence(view.network)])
\* merge_current, for one address.
Merged(a) ==
  LET scanned == a \in DOMAIN view.scans
      traits == IF scanned THEN view.scans[a] ELSE {}
  IN CASE "online" \in traits -> "Online"
       [] a \in view.manuals -> "Reserved / Manual"
       [] a \in view.devices \cup view.known \/ "name" \in traits -> "Offline - Known"
       [] ~scanned \/ "error" \in traits \/ ~LastComplete(view.network) -> "Not Verified"
       [] OTHER -> "Candidate Free"

\* The service's `current': an address of several networks is never called free,
\* because the probe does not choose the network it goes out on.
Overlapping(a) == Cardinality({n \in DOMAIN profiles : a \in profiles[n]}) > 1

\* The last query, of the runs; then the rows are merged and shown.
ReadRuns ==
  ViewReads("runs", "shown",
    [NoView EXCEPT !.network = view.network, !.before = view.before,
                   !.free = {a \in profiles[view.network] :
                               Merged(a) = "Candidate Free" /\ ~Overlapping(a)}])

\* The process restarts, perhaps with another configuration; the tables stay.
Restart ==
  /\ Cardinality(manuals) + boots < MaxEvents /\ boots' = boots + 1
  /\ config' \in Configs
  /\ profiles' = Unassigned
  /\ scanLock' = Unassigned /\ scan' = NoScan /\ progress' = Idle /\ view' = NoView
  /\ UNCHANGED <<rows, tables>>

InventoryNext ==
  \/ LoadProfiles
  \/ \E s \in Scanners : \/ ScanBegins(s) \/ Snapshot(s) \/ Probe(s) \/ CollectNeighbors(s)
                         \/ Persist(s) \/ ScanCompletes(s) \/ ScanFails(s)
  \/ SaveManual
  \/ ViewBegins \/ ReadManuals \/ ReadDevices \/ ReadEvidence \/ ReadRuns
  \/ Restart

InventorySpec == InventoryInit /\ [][InventoryNext]_inventoryVars

-----------------------------------------------------------------------------
(* Properties. *)

\* Every variable holds a value of its kind.
InventoryTypeOK ==
  /\ config \in Configs /\ profiles \in Configs \cup {Unassigned}
  /\ \A n \in DOMAIN rows : n \in Networks /\ rows[n].range \subseteq Addresses
                            /\ rows[n].enabled \in BOOLEAN
  /\ \A i \in DOMAIN runs : /\ runs[i].network \in Networks /\ runs[i].complete \in BOOLEAN
                            /\ \A a \in DOMAIN runs[i].scans : runs[i].scans[a] \in Result
                            /\ runs[i].devices \subseteq Addresses
  /\ manuals \subseteq Networks \X Addresses
  /\ scanLock \in Scanners \cup {Unassigned}
  /\ progress.status \in {"idle", "running", "completed", "error"}
  /\ boots \in 0..MaxEvents

\* An address that anything was ever known of - a reply, a MAC or a name in any
\* earlier scan, a Kepware device, a manual record - when a view began is not
\* called Candidate Free by that view, whatever is scanned, saved or restarted
\* in between and however silent it was since (store.current, merge_current).
HistoryProtects ==
  view.at = "shown" => view.free \cap view.before = {}

\* A scan that says it is completed has saved a run for every network it was
\* asked for and counted each of their addresses once, an address of several
\* networks for each of them; no scan ever counts past its total.
ProgressAddsUp ==
  /\ progress.scanned <= progress.total
  /\ progress.status = "completed" =>
       progress.scanned = progress.total /\ scan.saved = Cardinality(scan.all)
=============================================================================
