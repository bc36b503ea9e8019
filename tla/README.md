# Kaveh: formal model and proofs

Kaveh is a desktop privacy tool for Windows in three processes: a Go engine
(`engine/`, port 51337) that owns the local proxy and everything that touches
the Windows firewall and network adapters, a Python core (`core/`, port 51338)
that owns the configuration file, rotation, failover and the audit log, and a
Tauri window (`ui/`) that polls the core and starts the other two. This
directory holds TLA+ models of that code, the TLC runs that check them on small
instances, and TLAPS proofs of the properties that matter most.

Paths below are relative to the repository; in `PROJECT.json` they carry the
prefix `src/`.

## 1. Inventory

| component | source | state it keeps | operations | modelled in |
|---|---|---|---|---|
| kill switch | `engine/killswitch/` | `since`; the rule group `Kaveh` in the firewall | Enable, Disable, Status | `KillSwitch` |
| engine process | `engine/main.go`, `listen_*.go` | life of the process, the API's listener | start, SIGINT/SIGTERM, exit | `KillSwitch` (shutdown) |
| proxy manager | `engine/proxy/proxy.go`, `api.go` | `server`, `cfg`, the listeners and connections of every `http.Server` | Start, Stop, Status, Serve, CONNECT and plain requests | `ProxyManager` |
| upstream chain | `engine/proxy/proxy.go:283-400` | one TCP connection per request | dial hop by hop, CONNECT, TLS | no |
| DNS | `engine/dns/` | `enforce`; rule group `KavehDNS` | Set, Enforce, Unenforce, Flush, Status | `RuleGroup`, `DnsEnforce` |
| JS leak protection | `engine/fingerprint/jsleak*.go` | `enabled`, `cfg`; rule group `KavehJSLeak` | Enable, Disable, Status | `RuleGroup`, `JsLeak` |
| MAC spoofing | `engine/fingerprint/mac.go` | none in the engine; the adapter | Spoof, Reset, list | only the window's buttons, `ConfirmButtons` |
| network monitor | `engine/monitor/monitor.go` | caches of names and processes | Snapshot | `TrafficHistory`, as a source of lists of connections |
| tracker blocks | `engine/monitor/blocks*.go` | `blockedIPs`; rule group `KavehTracker` | Block, Unblock, Clear | `TrackerBlocks` |
| isolation | `engine/isolation/` | `enabled`, `rules`, WinDivert sessions; rule group `KavehIsolation` | SetRules, Enable, Disable, the goroutine that applies rules | `Isolation` |
| core API | `core/api/server.py` | none of its own | one handler per request, a thread each | `Switchover` (proxy, rotation, failover, config), `ConfigStore` |
| engine client | `core/api/engine_client.py` | none | one HTTP call, 5 s timeout | as an atomic call or a cut-off one |
| rotation | `core/api/server.py:72-189` | `_running`, `_stop`, the thread; index in the file | start, stop, rotate, thread loop | `Switchover`, `WorkerLoop` |
| failover | `core/failover/manager.py` | `_running`, `_stop`, the thread, `_consecutive_failures`; index in the file | start, stop, trigger, probe loop | `Switchover`, `WorkerLoop` |
| configuration store | `core/config/store.py` | `config/kaveh.json` and its `.tmp` | load, save | `ConfigStore` |
| profiles | `core/profiles/presets.py`, `ui/src/main.ts:278-320` | none | apply a preset | `Switchover`, `ConfigDraft` (the fields these need) |
| audit log | `core/logger/audit.py` | `logs/kaveh_audit.jsonl` | log, tail, clear, under one lock | no |
| window: status and controls | `ui/src/main.ts` | `lastState`, the state the handlers are bound to, the page, the flags of the kill switch | poll, render, patch, buttons, shortcuts | `Window` |
| window: confirmations | `ui/src/main.ts` | a flag for each button that acts on the second press | press, ESC, navigate, render | `ConfirmButtons`, which implements `Confirm` |
| window: configuration | `ui/src/main.ts` | `configDraft`, `configSaving`, `configError`; the rows of the chain | edit, profile, save, reload | `ConfigDraft`, `ChainEditor` |
| window: traffic | `ui/src/main.ts` | `trafficHistory`, filters, pause | poll, clear, list, count by address | `TrafficHistory` |
| sidecars | `ui/src-tauri/src/lib.rs` | the two child processes | start, kill | `KillSwitch` (kill, restart) |
| build and release | `config/`, `ui/src-tauri/*.ps1`, `.github/` | - | - | not modelled: no run-time behaviour |

### How the parts interact

The window sends every action to the core over HTTP and shows what it polls
every 1.5 s. The core serves each request in a thread of its own, loads and
saves the configuration file without a lock, and calls the engine with a 5 s
timeout. Two background threads of the core, rotation and failover, do the same
on their own account. The engine serves each call in a goroutine; what it keeps
in memory is guarded by a mutex per manager, but no mutex is held while `netsh`
runs or while `http.Server.Shutdown` waits. Firewall rules outlive the engine;
the configuration file outlives the core. Closing the window kills both
(`lib.rs`), so neither runs its shutdown code then.

### What is hard

- *Between two netsh calls anything may happen*: another request, a timeout, the
  end of the engine. The kill switch, DNS, JavaScript leak protection, tracker
  blocks and the firewall half of isolation all share that shape.
- *Stop overtakes Serve*: `Start` announces a server before its goroutine has
  registered the listener with `http.Server`, and a `Stop` in that window closes
  nothing at once.
- *Load, change, save*: rotation, failover, DNS requests and `PUT /config` each
  write back the whole file, from what they read some time before.
- *A background thread learns of stop only through an event* that the next start
  clears again.
- *One temporary file name for every save.*
- *The window's handlers keep the state of the last render*, while polls replace
  `lastState` and rewrite texts; polls overlap, and a draft is a copy of what
  was rendered.

`PROJECT.json` lists these and the other hazards line by line, with the
properties that speak of them.

### What makes each component correct

| component | properties | where |
|---|---|---|
| kill switch | Status and firewall agree while requests do not overlap; a request that ran alone did what it says; a regular exit unblocks; every request and the shutdown end | checked, the first two proved, the third of an exit that runs alone |
| proxy manager | Status describes the held server; no listener is lost; a drained server stays silent; new connections take the reported upstream; Stop frees the port | checked, safety proved |
| rotation, failover | after a switchover that met no other the running upstream is the one the file names; failover needs two failed probes in a row; each thread rotates at most once after rotation is switched off; the proxy recovers | checked, all but the last proved |
| background threads | a started thread lives unless an exception ends it; each begins at most one more piece of work after stop; a last stop ends every thread | checked, safety proved |
| configuration store | while saves do not overlap the file is whole at every moment and a save takes effect in one step or not at all; however they overlap, on Windows the file is never emptied; background threads survive it | checked, all but the last proved; the last is false |
| DNS, JavaScript leak | while requests do not overlap, rules of two never mix and DNS is never blocked without its allowed servers, whatever fails; a lone request takes effect from any state | checked, proved for any plan and lists of any length |
| tracker blocks | the list and the firewall agree on every address that no two requests had in hand at once | checked, proved |
| isolation | at rest, what Status shows is in force unless it repeats what a request claimed; after calls that worked nothing is left when it is off; without overlap no session handle is lost | checked, proved |
| chain dialling | every connection that is opened is closed or handed on | planned |
| window: status and controls | at rest the page shows the engine's state; KILL SWITCH never enables, CONFIRM never only arms, and a click does what the label says while no patch has changed the switch | checked, all but the first proved |
| window: confirmations | no request without a first press that raised its flag, which SPOOF RANDOM and SPOOF CUSTOM share; in the DNS and tracker views a button that would act says so | checked, proved |
| window: configuration | no edit is lost but one made during a save; SAVE comes back unless an error is shown; a save changes only what was edited; a chain holds hops unless a stale row is used | checked, proved but for the third, which is false |
| window: traffic | a connection is counted once, and the page lists and counts what the history holds, however polls overlap | checked, proved |

## 2. Modules

| module | stands for | state | one action per |
|---|---|---|---|
| `KillSwitch` | `killswitch.go`, `api.go`, shutdown in `main.go`, kill and restart in `lib.rs` | `since`, the rule, where each request is, life of the process, netsh commands that outlived it | critical section or netsh call |
| `ProxyManager` | `engine/proxy` | `server`, `cfg`, and for every `http.Server` its configuration, listener state, `inShutdown`; every connection; every Stop under way | critical section, `Listen`, entry into `Serve`, `Shutdown`, connection event |
| `Switchover` | `rotate_once`, `_failover_once`, the loops of both threads, the handlers of the window's requests | the fields of the file these read; EXTENDS `ProxyManager` for the engine, whose actions it calls | load, save, engine call |
| `WorkerLoop` | `start`, `stop` and `_run` of both managers | `_running`, `_stop`, `_thread`, where every thread is in its loop | locked section, test of the event, wait |
| `ConfigStore` | `load` and `save` | what both file names are bound to, file contents, open handles | system call |
| `AtomicStore` | what saving promises (abstract) | what is stored, what each thread saves | begin, commit, abandon, crash |
| `RuleGroup` | Enforce/Unenforce and Enable/Disable of a rule group | the rules in the firewall, the stored status, where each request is | netsh call, locked section |
| `TrackerBlocks` | `blocks.go`, `blocks_windows.go` | the rules, `blockedIPs`, where each request is | netsh call, locked section |
| `Isolation` | `isolation.go` and its two back ends | the rules, `enabled`, the firewall group, sessions and open handles, where each request and goroutine is | locked section, netsh call, opening or closing a handle |
| `Window` | polling, `render`, `patch`, the kill switch, the proxy buttons, ESC | the engine's state, `lastState`, what handlers are bound to, what is shown, requests and polls under way | the code between two awaits |
| `Confirm` | what a confirmed action promises (abstract); actions may share a flag | `armed`, `fired` | arm, fire, cancel |
| `ConfirmButtons` | the buttons of DNS, MAC, JavaScript leaks and trackers | the flags, the view, the buttons drawn | press, ESC, poll, render, navigation |
| `ConfigDraft` | `ensureConfigDraft`, `saveConfig`, the inputs, switches and profiles | the file, three configurations the window holds, `configDraft`, the saves in flight | edit, button, `PUT`, answer, poll |
| `ChainEditor` | the rows of the upstream chain | the draft's chain, the rows drawn | add, delete, edit, move, save |
| `TrafficHistory` | `trafficHistory`, the dashboard's rows, the tracker's items | the history, what is drawn, polls under way | answer, end of a poll, filter, pause, clear |
| `DnsEnforce`, `JsLeak` | the rules a request stands for | EXTEND `RuleGroup` and give the values of its `Plan` | - |
| `Filter` | `filter` of an array, and the loops of the engine that do the same | - | - |
| `MCProxyManager`, `MCSwitchover`, `MCRuleGroup`, `MCConfigStore` | small instances: symmetry sets and values TLC cannot take from a cfg; `MCRuleGroup` puts `DnsEnforce` and `JsLeak` side by side | - | - |
| `MCSwitchoverModes` | three kinds of behaviour of `Switchover`: serial, free, and with threads of earlier starts (below) | `mode` | - |
| `MCFirewall` | `MCRuleGroup`, `TrackerBlocks` and `Isolation` side by side | `part` | - |
| `MCWindow` | the five parts of the window side by side | `part` | - |
| `KillSwitchProofs`, `ProxyManagerProofs`, `WorkerLoopProofs`, `ConfigStoreProofs` | theorems about the module of that name | - | - |
| `SwitchoverProofs` | theorems about `Switchover` | - | - |
| `FirewallProofs` | theorems about `RuleGroup`, `DnsEnforce`, `Isolation`, `TrackerBlocks` and `MCFirewall` | - | - |
| `WindowProofs` | theorems about the five parts of the window and `MCWindow` | - | - |
| `FilterProofs` | lemmas about `Filter`, for the two modules above | - | - |

Operators whose name and comment say "variant with a bug" take no part in any
specification. Each stands for a plausible slip in the code and shows, put in
place of the definition it varies, that the property it belongs to would notice.

The correspondence of every definition with lines of the source is in
`PROJECT.json` under `map`. What holds throughout:

- A step is what the code does between two points at which another thread can
  see the difference: one locked section, one external command, one file
  operation.
- netsh succeeds, fails without effect, or reports an error after taking effect
  (`cut_short`: the context's deadline, or the core hanging up after 5 s).
- A kill loses all memory and keeps firewall and files. In `KillSwitch` a netsh
  left behind by a killed engine may take effect at any time later (`orphans`);
  in `RuleGroup` it does so, or not, before the engine is up again.
- History variables are only read by properties and by each other. Some of them
  say when a property may be expected:
  - `alone` (a request has met no other activity), `sole` and `single` (it has
    met no other request about its addresses, or about isolation);
  - `calm` (kill switch), `mixed` (rule group), `doubtful` (addresses of tracker
    blocks), `entangled` (isolation): requests have overlapped, or a call has
    failed, since one that ran alone last set things right; each module says
    which of the two counts, and for which property;
  - `met` and `tangled` (switchovers): one under way has met another, and some
    have since one that met none started the proxy;
  - `claimed` (isolation): rules that are stored as enforced because the request
    said so (section 6);
  - `clash` (two saves of the file have overlapped), `raced` (an edit was made
    while a save was in flight), `overrun` (a row of the chain was used whose hop
    had been deleted).

  What they exclude really goes wrong; section 3 says how. The others count
  (`badProbes`, `rotations` and `late`, the last two for each thread) or remember
  (`edited`, `edits`, `faulty`, `raised`).
- Components that share no state are checked in one run: a variable that is
  chosen in `Init` and never changes says which of them the behaviour is about
  (`part` in `MCFirewall` and `MCWindow`, `group` in `RuleGroup`, `loop` in
  `WorkerLoop`, `backend` in `Isolation`, `os` in `ConfigStore`). `mode` in
  `MCSwitchoverModes` bounds one model in three ways: *serial* behaviours with
  every request, but rotation and a chain not on at once; *free* ones, in which
  switchovers overlap, but the user only saves when he finds rotation on, with
  rotation and chain off in what he saves, and forces a failover when he finds it
  off (stale saves of the threads switch rotation on again at any time); and ones
  with an *older* thread of rotation and of failover beside the newest, in which
  the user only makes such saves.
- A late answer is any that was true once: `served` in `ConfigDraft` holds the
  configurations a poll may still bring.
- Texts, times, `last_error`, the audit log and calls of the core that never
  reach the engine (it is down) are left out.

## 3. Runs

| run | asks | bounds |
|---|---|---|
| `KillSwitchFull` | do Status and firewall agree while the history is calm, does a lone request, or a lone exit, do what it says from any state, is every request answered and does the shutdown end? | 2 callers, main, all faults |
| `KillSwitchExit` | does every regular exit unblock: **violated** | 1 caller, no fault |
| `ProxyManagerSafe` | Status, listeners, draining, routing | 2 callers, 3 servers, 2 addresses, 2 routes, 1 connection, other programs |
| `SwitchoverModes` | does the engine follow the file again after switchovers have overlapped; is failover's count right, and how often does a thread rotate after rotation was switched off, however they do? | two threads of rotation and two of failover moving between two upstreams, 1 user, bounded per `mode` as section 2 says |
| `SwitchoverRecovers` | does failover bring the proxy back, does Stop free the port? | 2 backups of which one works; rotation and failover on or off; the user starts and stops, and edits nothing |
| `SwitchoverTrigger` | does a forced failover leave the proxy running: **violated** | one upstream and one backup |
| `Firewall` | is what DNS, leak protection, tracker blocking and isolation report in force, are rules of two requests ever mixed, is DNS ever only blocked; what does a request on its own repair? | 2 overlapping callers, all faults; DNS lists of up to 2 entries over 2 addresses, a blank and a bad one; leak protection with no, 1, 2 and 3 rules; 2 tracker addresses; isolation with 2 requests for 1 process, and 1 request and a goroutine for 2 |
| `Workers` | who lives, who works late, who ends? | 3 threads at a time; rotation and failover |
| `Store` | is the file whole, is every save atomic? | 3 threads, 2 configurations of different length, 5 files, kills; Windows and POSIX |
| `StoreWorker` | does a background thread survive the file: **violated** | 1 reader and the failover thread |
| `Window` | what can the kill switch's label be relied on for, is every other request confirmed, no edit lost, a connection counted once and listed as the history has it, the engine's state shown in the end? | the timer's poll and that of a handler; 2 addresses; 2 polls with 3 connections and a history of 3; a chain of up to 3 hops; 2 overlapping saves and 3 writes |
| `DraftSaves` | does a save change only what was edited: **violated** | 2 saves, 3 writes, every poll answered, only the window writes |

Why the bounds are enough: the effects looked for need two requests that overlap
and, for the properties about a request that runs alone, some partial state left
behind before it, which faults and earlier requests of the same two callers
produce. Three servers let one be on its way out, one stop and one serve. Two
configurations of different length are what a torn file needs, two DNS servers
what a partial list needs. Three threads allow two that missed their stop beside
the newest. `WorkerLoop` counts each thread's late work up to two, one more than
the property allows. In `Switchover` one older thread of a kind is enough for
two to be late at once and for their probes to share the count. Files are reused
when no name and no handle refers to them; a save that would need one more than
the bound waits, and five is the most that can be in use: the two names, and one
for every thread that still reads or writes an old file. Of leak protection four
of the eight configurations are taken: what differs in the others is only which
rules, not how many. Two polls are what it takes for one to overtake another;
three connections and a history of three make the history drop one while an
answer that lists one twice comes in. An edit, a save and something in between
are the three writes a stale draft needs.

What the conditions in section 2 leave out is not harmless, only not promised:
of two overlapping kill switch requests (`killswitch.go:45`) Enable may add the
rule after Disable deleted it and store `since` before Disable clears it, which
leaves everything blocked and reported as off; two overlapping DNS requests may
leave rules of both; two overlapping saves may leave a torn file. A Block and an
Unblock of one address may leave it listed and not blocked, or blocked and not
listed (`blocks.go:34`). Two Enables of isolation may open two handles for a
process of which one is never closed (`isolation.go:134`), and the goroutine of
SetRules may add rules after a Disable has removed them (`isolation.go:249`). An
edit made while a save is in flight is dropped with the draft when the save
succeeds (`main.ts:2301`). A row of the chain that is used after its hop was
deleted puts `undefined` into the chain, after which the view cannot be drawn
(`main.ts:1511`); a row out of step with the array may also delete or move another
hop than the one it shows. Two switchovers that overlap lose one another's saves and may leave a
proxy with an upstream the file does not name, until the next one on its own.

The runs that fail, each a finding in `PROJECT.json`:

1. *Enable during shutdown* (`main.go:78`). The rule outlives a regular exit.
2. *Forced failover* (`manager.py:160`). Stop overtakes Serve, the port is still
   bound, the Start that follows fails, the proxy stays stopped.
3. *Failover thread and file* (`manager.py:83`). `os.replace` fails on Windows
   while a request reads the file; nothing catches that, and the thread is gone
   for good.
4. *Drafts of the last render* (`main.ts:1449`). A draft copies the configuration
   that was rendered last, which after a save is the one from before it; the next
   save sends the old values of all other fields back.

## 4. Fairness

Weak fairness is assumed of each goroutine and thread separately, because both
run times schedule all of them, and of external calls because each has a
deadline (netsh 5 to 12 s, `Shutdown` 5 s, waits of the background threads their
interval). Nothing is assumed of users, of faults, kills and restarts, or of
netsh succeeding. `Recovers` needs one assumption more, about time:
`ServesInTime` is strongly fair, that is, `Stop` does not overtake the new
server's goroutine every single time; at least 5 s lie between a Start and the
next Stop of the failover thread, while the goroutine needs microseconds.
`Recovers` presupposes that the user leaves the proxy alone from some point on,
so `FairSpec` of `Switchover` leaves out the edits of the file before it.

In `Window` the timer is weakly fair, and so are the two reads and the end of
every poll: `fetch` ends with an answer or an error. Nothing is assumed of the
user, of the requests his buttons send, or of the order in which polls end.
`WindowCatchesUp` asks something only of behaviours in which the engine answers
and changes no more from some point on.

## 5. Proofs

Every invariant and every safety property of a step that a passing run checks is
also a theorem, for every value of the constants that satisfies the modules'
`ASSUME`s. These leave open how many callers, threads, servers, upstreams,
addresses, processes, polls and rules there are, how long lists are, and how
large each named bound is. They say that values meant to be distinct are (`None`,
`Nothing`, the two background threads), that defaults are among the values, that
lengths and bounds are numbers, and that lists and plans hold what they should.

Engine:

- `KillSwitchProofs`. `LoneInv`: while a process is alone, nothing else runs and
  no netsh is left over, so what its own calls did is still in place. With
  `MainInv` (main runs Disable only between signal and Shutdown) it gives
  `LoneRequest` and `LoneExit` for any number of callers and all faults.
  `CalmInv` and `PhaseInv` follow `since` and the rule through every label of the
  one process that a calm history allows and give `StatusMatches`, again for all
  faults.
- `ProxyManagerProofs`. None of the four properties is inductive by itself;
  `VictimInv` (every Stop has its own server, never the one still held),
  `ShutInv` (serving and shutting down exclude each other) and `PortInv` (no two
  servers compete for an address) carry them. `RoutedAsReported` rests on
  `PortInv`.
- `FirewallProofs`, the rule groups. For any rules and any plan: `Faithful` and
  `LoneInv` say that a lone request has added exactly the first `done` rules of
  its plan, which gives `RgLoneRequest`. `UnmixedInv` (without overlap at most
  one request runs and what it has added is what is there) gives `OnePlan`; a
  request that deletes the group alone makes it true again after an overlap. DNS
  and JavaScript leak protection are two instances. `NeverOnlyBlockedAlways` goes
  from there: where rules are not mixed the group is a first part of one plan,
  and `AllowsComeFirst` says that a plan of `DnsEnforce` allows every server over
  both protocols before it blocks either.
- `FirewallProofs`, tracker blocks. `SoleInv` (a request that has met no other
  shares no address with one) and `DoneInv` (so what it has done is still there
  when it takes the lock) give `BlocksAgree`.
- `FirewallProofs`, isolation. `IsolationTruthful` speaks of rest, so the
  invariant has to say what holds on the way there: `IsoLone` (a request or
  goroutine that has met no other is the only one under way), `IsoEnforcing` (the
  group holds both rules of every process that a lone one has dealt with and
  marked, and nothing else unless a call failed), `IsoDisabling` (between its two
  halves a lone Disable has cleared the group, or failed) and `IsoSessions` (no
  handle is lost, and sessions fit the switch except inside a Disable). What a
  request claims of its own rules is left out by name (`claimed`), not by leaving
  it out of the model.
- `FirewallTypesAlways` puts the three side by side.

Core:

- `SwitchoverProofs`. It composes: a step of `Switchover` does at most one action
  of `ProxyManager` to the engine, so the invariant of `ProxyManagerProofs`
  carries over (`EngineTruthfulUnderSwitchovers`). `SnapInv` adds to the types
  that whoever is about to save or to start has loaded a configuration, and that
  a failover that saves has a backup to take. `FoInv` (the manager's count of
  failures never exceeds the failed probes in a row, since a forced failover only
  takes it back) gives `TwoFailedProbes`; `RotInv` (a rotation thread that has
  struck since rotation was switched off is not waiting any more) gives
  `OneLateRotation` for each thread; both however switchovers overlap and however
  many threads of earlier starts run beside the newest. `EngineFollowsFile` takes
  three: `MetInv` (switchovers that run beside each other know it), `LoneSwitchInv`
  (from the load of one that has met nobody to the engine's answer, the file is
  what it loaded or saved) and `AheadInv` (unless things are tangled, the file is
  ahead of the proxy only between a save and the end of Stop). They hold of every
  behaviour, so what overlapping switchovers leave behind is covered, too.
- `WorkerLoopProofs`. `NewestInv` (running means the event is clear and nobody
  has woken the newest thread) and `LateInv` (a thread waiting while the event is
  set has been woken; one whose wait had already ended, or that had looked at the
  event already, begins once more, and then cannot come back to begin again).
- `ConfigStoreProofs`. `AloneInv`: while no two saves have overlapped, one thread
  at most is between open and rename, and the temporary file holds what it has
  done so far; with `NamesDiffer` (the two names are never bound to one file) it
  gives `WholeFile`. `WindowsInv` holds whatever overlaps: whoever still writes
  has the temporary file open, which makes `os.replace` fail, and once nobody
  writes it is not empty when somebody renames it. From that follows
  `NeverSilentDefaults`.

Window:

- `WindowProofs`, controls and confirmations. `DrawnInv` ties the flag the
  button was drawn with to the flag as it is, through every render, patch and
  message, for any number of overlapping polls; `ClickAsLabelled` follows by
  cases of the state drawn and the state bound. For the confirmations `CbInv`
  says that the buttons drawn are those of the view, and those whose flag is up
  say so.
- `WindowProofs`, the draft. `Carried`: unless an edit was made during a save,
  every save in flight carries all edits that are not stored yet, so forgetting
  the draft after it loses none. It carries `EditsKept`; `SaveOffered` is
  inductive with the types. Both hold also when the core changes the file.
  `NotedInv` (an edit is a value of its field) is what the types still need.
- `WindowProofs`, chain and traffic. Both rest on what `filter` returns
  (`FilterProperties` in `FilterProofs`: its length, and that each element is one
  of those kept). `ChainInv` says that, unless a row without a hop was used, moves,
  deletions and additions leave neither a hole nor undefined in the array.
  `PageShowsHistory` is inductive with the types. `HistoryInv` is
  `OneSighting` by index: what an answer adds is not listed yet, all of it has
  the answer's time, and cutting the history keeps what it keeps in place.
- `WindowTypesAlways` puts the five parts side by side.

Refinements. Both abstract specifications leave out how the promise is kept, and
each proof goes through the concrete actions one by one.

- `ButtonsConfirm`: `ConfirmButtons` implements `Confirm`, with the same `armed`
  and `fired`; SPOOF RANDOM and SPOOF CUSTOM are two actions of one flag. The
  buttons that are drawn, the view and the polls disappear; every press is an
  arm or a fire, ESC a cancel, all else a pass.
- `SavesAreAtomic`: `ConfigStore` implements `AtomicStore` under `Stored`, the
  contents of what `kaveh.json` is bound to, and `value`, what each thread saves.
  Opening and writing the temporary file change nothing that the abstract store
  sees; a rename is the commit, or the abandonment where Windows refuses it; a
  kill is a crash. Besides the invariant above it takes `RestInv` (a thread that
  saves nothing has no value left). After an overlap the abstract store may hold
  anything but nothing (`Garble`). `SavesTakeEffect` says of a single rename what
  follows from it.

Only model-checked: all liveness (`RequestsComplete`, `StopCompletes`,
`StopsEventually`, `StopFreesPort`, `Recovers`, `WindowCatchesUp`), since fairness
and `ENABLED` are out of the prover's reach; and the properties of the runs that
fail. That `Filter` agrees with the recursive `SelectSeq` would be an induction
over data, which cannot be proved here either.

## 6. Limits

- The order in which Windows weighs allow and block rules is not modelled, only
  which rules exist.
- `ConfigStore` takes a write as one step that either starts from an empty file
  or from what another handle wrote; power failures are left out.
- `Switchover` works on the fields its code reads; merging of other fields by
  `PUT /config` is not followed.
- `TrackerBlocks` leaves open what netsh says to deleting a rule that is not
  there. Requests to isolation that overlap are explored, and promised nothing
  before one that meets no other.
- `Window` has one poll of the timer at a time beside one for every handler; the
  timer does not wait for the last one, so in the code there may be more.
- Each part of the window is checked by itself; what the others do to it is that
  they render and show messages (`Rerender`, `RedrawConfig`).

What the models show beside their properties, and the properties therefore do not
promise:

- `SetRules` stores a rule's `enforced` as the request has it (`isolation.go:17`
  and `:90`), so a client other than the shipped window, which leaves it out
  (`main.ts:1696`), can make Status show rules as enforced while isolation is off.
- A rotation thread that missed its stop lives on beside the newest
  (`server.py:113`). When rotation is switched off while both wait, each rotates
  once more, so two rotations may follow.
- A stop can fall between the end of a wait and the rotation or probe that
  follows it (`server.py:182` and `:186`), which then still begins.
- After a CONNECT the tunnel outlives Stop and keeps its upstream; a Shutdown that
  gives up leaves connections relaying.
- SPOOF RANDOM and SPOOF CUSTOM share a flag (`main.ts:1737-1764`): a press on one
  makes the next press on the other send its request. Both then say CONFIRM SPOOF
  once the view is drawn again.
- ESC resets every flag but the one of the kill switch's shortcut
  (`main.ts:2131` against `:1043`), so a second press within its time enables.
- The kill switch button is labelled from the newest poll and acts on the state
  of the last render (`main.ts:1281` and `:1851`). After a poll that changed the
  switch one that says DISABLE may arm, and then enable, and one that says CONFIRM
  or KILL SWITCH may disable.
- A failed save leaves SAVE disabled until the next render (`main.ts:2296`).
- Arming a MAC or JavaScript leak button draws nothing, so what it says is only
  promised of the DNS and tracker views.
- A late poll puts an older configuration over a newer one (`main.ts:2188`).
- A poll that fails leaves no configuration, and a draft made after it starts
  from the defaults.

### Not modelled

- Audit log (`core/logger/audit.py`): append, tail and clear under one lock. No
  property takes several steps to violate; a line cut off by a kill is skipped.
- MAC spoofing (`mac.go`): one PowerShell script and no state in the engine. That
  a deadline can leave the adapter disabled is so by the shape of the script, and
  nothing notices or repairs it.
- Network monitor: how it reads connection tables and resolves names.
- Chain dialling, proxy headers and TLS (`proxy.go:283-400`).
- The file's side of DNS (`server.py:397`), which is saved before the engine is
  asked.
- Of the window: the log view, the list of isolation rules (`main.ts:1694` sends
  the list of the last render with one more), the onboarding steps, icons, theme.
- Build and release: scripts and bundling, no behaviour at run time.

## 7. Plan

1. `ChainDial`: the dialling of an upstream chain, where every error path has to
   close what was opened.
2. `DnsConfig`: the core's side of DNS, composed of the file and `DnsEnforce`:
   what the file says against what is installed, with the core's 5 s timeout
   against the engine's 12 s.
3. The list of isolation rules in the window, on top of `Isolation`.
4. One abstract specification more: a switch that is on or off with atomic
   requests, implemented by `KillSwitch` while the history is calm and by
   `RuleGroup` while nothing is mixed.
