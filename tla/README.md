# Specifications of the DRA driver integration environment

TLA+ specifications, TLC models and TLAPS proofs for the programs of this
repository. They live beside the code: a change to a mapped function should be
followed by a change here. `PROJECT.json` maps each definition to the lines it
models and lists runs, mutants, findings, hazards and theorems.

## The system

The repository sets up a machine, virtual or not, for testing Kubernetes DRA
drivers. Its parts:

| Part | State | Operations | Interacts with |
|---|---|---|---|
| `virtinjectd` proxy (`proxy.go`) | connections, two goroutines and two sockets each | accept, dial, read, patch, write, close | clients, libvirtd, hook chain |
| hook chain (`hook.go`) | per call: list of hooks, current document, child process | list, start, time out, return | hook files, hook processes |
| wire protocol, XDR (`protocol.go`, `xdr.go`) | byte stream position | frame, parse, encode, decode | the proxy's sockets |
| daemon (`main.go`) | socket file, listener, signal channel | start, remove stale, listen, signal, clean up | other instances, the operator |
| `setup-sriovvf` | sysfs: VF counts, NUMA nodes | resolve, reset, create, assign | kernel, other runs |
| `setup-hugepages` | sysfs: pages per node and size | read files, split, write | kernel, earlier runs |
| `setup-containerd` | containerd's configuration file | read, edit, truncate, write, restart | containerd, other runs of the script |
| `setup-workernode` | the Job and its pods | list workers, print the Job | the cluster; its pods run `setup-containerd` |
| `dramachine.py` | none (a filter) | four edits of a domain document | run by the hook chain |
| driver entry points (`driver/`) | process life cycle, signals | start, serve, stop | libraries outside the repository |
| validators, manifests, scripts | none | report, poll | |

What is hard about them: two goroutines per connection that close each other's
sockets; hooks that hang, fork or vanish after they were listed; a socket path
shared by successive or overlapping daemons; byte streams that arrive in
pieces; sysfs sequences interrupted between two writes and run again; a
configuration file truncated before it is written, by several scripts at once;
signals that arrive before, while and after a driver is started. The full
list, with the line each one bites at, is under `hazards` in `PROJECT.json`.

## Modules

* `Protocol`: messages with their bytes abstracted away.
* `Relay`: the abstract specification. Each side is handed a prefix of what
  the other sent, in order, only define calls patched, nothing after a close.
* `Proxy`: `proxy.go`. `run` is the process, `handler[c]` is where
  `handleConnection` stands, `pc[c][e]` is the goroutine that reads from `e`;
  `sent`, `got`, `taken`, `peer` and `open` are the sockets. Actions carry the
  names of the functions or of the step (`Accept`, `DialFails`, `ReadMessage`,
  `PatchDefineXML`, `WriteMessage`, `CloseClient`, ...). Sockets have a bounded
  queue, so writes block.
* `HookChain`: `hook.go`. One process per call of `Run`; `files` and `dir`
  are the shared file system, `child`, `out` and `orphan` the hook's process.
* `Xdr`, `Wire`: the codec as functions on sequences of bytes, and one
  direction of `forward` over a stream that arrives byte by byte.
* `Daemon`: `main.go`. `path` says whose socket file is at the listen path.
  `net.Listen` is two steps, bind and listen, `listener.Close` two more, unlink
  and close.
* `SriovVF`: `setup/sriovvf/main.go`, a step per read or write of sysfs. While a
  write to `sriov_numvfs` is under way the kernel adds or removes VFs one by one;
  `listVFPaths` is a step for the directory (`ReadDir`) and one for each link
  (`EvalSymlinks`), which fails when the link has gone. `DOMAIN vfnode[d]` is the
  VFs that are there, `vfs[p]` those a run has listed.
* `Hugepages`: `setup/hugepages` and its `provision` package, a step per write.
* `RuntimeConfig`: the script `setup-runtime.sh` and the tool it calls. `file[n]`
  is `config.toml` of a node, `loaded[n]` what its containerd runs with, `buf[i]`
  what a run is about to write. `process` and the operators it calls carry the
  names of the Go functions; `os.WriteFile` is two steps, `Truncate` and `Write`.
* `WorkerSetup`: `setup-workernode` and the Job it prints, on top of
  `RuntimeConfig`: a pod that is placed is a run of the script. The Job
  controller, the scheduler and the kubelet are external.
* `Dramachine`: `dramachine.py` as an operator on documents.
* `NodeHooks`: `HookChain` with `Dramachine` as some of its hooks.
* `DriverLifecycle`: the `main` of the three drivers; `driver` says which one
  the process is, `pc` where it stands, `plugin`, `http`, `mgr` and `nri` are
  what it has started. The drivers are libraries: one may wind down as soon as the
  context it was given is cancelled (`WindsDown`), and `RunDaemon` of the memory
  driver may return an error at any time (`MemoryFails`).

`MC*` modules and `.cfg` files instantiate these for TLC; `Daemon` and
`DriverLifecycle` need no MC module. `*Proofs` hold the proofs: one module per
component, those of `NodeHooks` in `HookChainProofs`, of `RuntimeConfig` in
`WorkerSetupProofs` and of `Xdr` in `WireProofs`.
An operator named `X_something` is a plausible bug in `X`, used to show that a
property can fail; no specification uses it.

How they fit together: `Proxy` assumes that `HookChain.Run` returns a member of
`Chain[x]`; `ResultFromHooks` of `HookChain` is that statement. `Proxy` takes
whole messages for granted; `FramingKept` and `AllBeforeDamage` of `Wire` say
that the stream is cut into them correctly. `CloseListener` and `RunReturns`
of `Proxy` are the shutdown that `Daemon` shows in detail. These three links are
arguments between modules. Two compositions are modules of their own and are
checked and proved as such: `NodeHooks` (the hook chain running `dramachine.py`)
and `WorkerSetup` (the Job running the script; `SetupSpec => Spec` says that it
implements `RuntimeConfig`).

## Runs

States are distinct states.

| Run | Instance | Shows |
|---|---|---|
| `proxy` | 1 connection, 2 messages each way, queue of 1; define calls with and without flags, undecodable, not a call, misframed (255k) | order, bounded buffering, end of stream last, no hangup without cause, no leak, refinement of `Relay`; a hangup ends the connection; what is sent to a peer that reads is handed over |
| `hooks` | 2 calls, `dramachine.py` as `--hook` and in the directory, beside a hook that prints nothing, 1 change on disk (346k) | results come from successful hooks only, alphabetical order, errors harmless; a worker gets all of the changes or none; `Run` returns unless a process left behind holds it |
| `daemon` | 3 instances, one after the other or overlapping (127k) | an instance with its time to itself works, whatever those before it left; no socket file loses its listener; a signal stops the daemon |
| `wire` | up to 2 of 13 messages, string limit 5, message limit 40 (91k) | framing and re-encoding |
| `sriovvf` | 2 runs, 3 devices, 2 nodes, one after the other with failures and kills, or interleaved with the same settings (711k) | exit 0 means configured; no busy write; try mode; interleaved runs converge, the even spread apart |
| `hugepages` | 1 or 3 nodes, up to 2 files, 2 runs (6k) | finished groups are whole and even |
| `setup` | 2 nodes, 2 pods of the Job, 1 init container of a driver (217k) | no setting lost outside the truncation window; containerd ends up configured; one pod per worker; a completed Job means configured workers; the Job ends |
| `drivers` | any of the three drivers, 4 signals (656) | health is truthful; what is started is stopped, unless the cause is one of those listed; the callback finds a driver; a trapped signal or a background failure ends the process |

Bounds. One connection is enough for `Proxy`: connections share only the
shutdown, and the safety theorems hold for any set of them. Two messages and a
queue of one make a message wait behind another, behind a hook and behind a
full socket. `Wire` needs two messages for a slip of the framing to show; the
limits are scaled down so that documents have every length modulo 4 and reach
them; the hooks of the instance never print above the string limit, which
`EncodeXDRString` does not check. Two runs suffice for the setup tools since all
a run sees of earlier ones is sysfs, and `sriovvf` starts from every VF count of the instance.
In `setup` three scripts are enough for two to be in the truncation window on
one node, and two nodes for the spread to matter; `config.toml` has both tables
and an old NRI value, and settings the tool knows nothing of are left to the
proof, which has any set of them. Four signals fill the channel of the CPU
driver, of capacity 2, and leave one to drop and one for the closed channel.
Deadlock is not checked: all of these programs may come to rest.

Where the code does not do what a comment or a test of the repository says, a
run is expected to be violated (`findings` has the quotations):

* `proxy_replies`: a reply is lost when a write towards libvirtd fails first
  and its goroutine closes both sockets.
* `proxy_log`: an ordinary end of stream is logged as an error, because
  `ReadMessage` wraps `io.EOF` and `isConnectionClosed` compares with `==`.
* `hooks_orphan`: a process a hook left behind, holding its output, keeps `Run`
  waiting past the timeout (`cmd.WaitDelay` is not set).
* `hugepages_node`: with several NUMA nodes, `Node` of a group is ignored.

Four more observations have no run of their own. An instance of `virtinjectd`
that starts beside a live one removes the live one's socket as "stale"
(`main.go:119-120`): this is why `ListenerReachable` and
`RestartFindsAddressFree` speak of instances that are not `shared`, the history
variable that records an overlap. `ensure_igb_interface` is content with an igb
interface on any network, where its docstring speaks of the SR-IOV network
(`dramachine.py:95`). A failure of `setup-runtime-containerd` does not make the
script fail, so that a Job can complete with nothing configured
(`setup-runtime.sh.tmpl:5`): `CompletedMeansConfigured` has to exclude it. And a
run of `setup-sriovvf` that lists the VFs while another one is replacing them may
see some of them only, counts its round robin from the first it sees, and writes
over what the other run has assigned: with 3 VFs and 2 nodes all may end up on
one node with both runs successful (`main.go:293`, `368`). `OverlapConverges`
promises the even spread only where no run listed a part of the VFs, and the
number of VFs, pinning and an online node for each VF in any case.

Other properties have a condition because the code promises nothing outside it:
`SettingsKept` and `ContainerdUpToDate` leave out a crash, a full disk or a read
in the truncation window (`hurt`), `OnePodPerWorker` and
`CompletedMeansConfigured` a pod that was over before the last was placed
(`early`) and nodes labelled since, `NoDeadSocket` the time between bind and
listen, `HealthzHonest` that between `cancel` and `server.Shutdown`, and
`AbandonedHasCause` names the ways a driver is left running: an untrapped
signal, an error of `RunDaemon`, and a failed step of `RunPlugin` between
`driver.Start` and the NRI plugin. The notes of the hazards concerned say so.

## Fairness

`Proxy`: weak fairness of each goroutine's step (the Go scheduler), of accept
and dial. Nothing makes a peer send, read or hang up; since a write may block
for ever when its reader has stopped, `SentIsForwarded` and
`HangupEndsConnection` are stated for a receiver that keeps reading
(`KeepsReading`), whatever the sender does. `PatchDefineXML` being
fair stands for the hook chain returning; `ReturnsUnlessHeld` says when it does
and `hooks_orphan` when it does not. `HookChain`: the calling goroutine and the
timer; nothing of the hooks. `Daemon`: main and the signal goroutine.
`WorkerSetup`: the cluster creates and places pods it can place, and a script
that runs takes its next step (it waits for nobody); nobody has to run the tool,
label nodes or kill anything. `DriverLifecycle`: `main` takes its next step,
which includes that the library calls it makes return; the HTTP server, the
manager, the signals and a failure of `RunDaemon` are not fair.

## Proofs

For all values of the constants, under the ASSUMEs of the component modules:

* `ProxyProofs`: the inductive invariant is TypeOK, a statement per direction
  (messages handed over are the ones read, one may be in hand and is a
  permitted form of the last one read, an end-of-stream error implies that all
  was read) and one per connection (which sockets and goroutines exist in which
  state of the handler, and why it is being closed). The properties alone are
  not inductive: order depends on the message in hand, and absence of leaks on
  the state of the handler. From it follow `InOrder`, `BoundedBuffering`,
  `StreamDrained`, `HangupCaused`, `NoLeak` and `Refinement` (every step is a
  step of `Relay` or a stutter).
* `HookChainProofs`: TypeOK and `CallInv`, which ties a call's document, its
  pending hooks and the output of its process together: output that a process
  exited successfully with is one its hook may print for the current document.
  With `dramachine.py` among the hooks (`NodeHooksAssumption`, used by the second
  part only): `process_xml_stream` is idempotent, its result fit and with at most
  one interface more, so that a document is at any time the input or the script's
  output for it.
* `DaemonProofs`: who owns the socket file (`Owned`), and what an instance may
  rely on that shared its time with no other, from the removal of the stale file
  over the bind to the listen. The theorems hold for any number
  of instances, restarted or overlapping.
* `WorkerSetupProofs`, the script: besides types, what is in a run's buffer
  (`BufInv`), what the file may hold unless it was hurt (`FileInv`), which runs have touched
  it (`TouchInv`), and that containerd has loaded the file as it is unless some
  run has still to restart it (`LoadInv`). The last one is what makes
  `ContainerdUpToDate` inductive: a restart on a truncated file is repaired by
  the restart of the run that truncated it. `process` is shown to be idempotent.
* `WorkerSetupProofs`, the Job: `SetupSpec => Spec`, so that the above holds for
  it; that no worker has two pods, by counting: with skew 1, a second pod on a node
  means one on every worker already, more than the Job has. A completed Job
  then has one pod on each worker.
* `SriovVFProofs`: the invariant says what a run has chosen, created and assigned
  so far. For overlapping runs (`Responsible`): as long as one of them has yet to
  write the number of VFs (`Making`) the device is its business; once none has, all
  VFs are there to stay, and either some run that listed them then is still
  assigning nodes and will get to the end, or every VF is assigned already. A list
  of a part of the VFs is a fact about a run that stays (`Torn`), so that the share
  of each node is known while no run has one. From this `NeverBusy` and
  `TryModeSucceeds`. The arithmetic comes after it: assigning VF `k` to node
  `k % n` spreads them evenly, hence `SuccessMeansConfigured` and
  `OverlapConverges` (`OverlapSettles`), for any devices, nodes, settings and
  number of runs.
* `WireProofs` starts with the conversions: `DecodeOfEncode`, `ReplaceReplaces`
  and `ParseOfMarshal` say that decoding undoes encoding whatever follows, for
  strings of any length up to the limit and, for the new string, above it. The
  stream is the frames of the client's messages one after the other
  (`Joined`), any number of them. The invariant ties `nread` to where they
  start: at the next message before the length word, four bytes on before the
  data, at the message after it before the write, when `header` and `payload` are
  its own; and it says why a stream was given up. `FramingKept` alone is not
  inductive, since what is written next depends on what was cut out of the
  stream. `MessagesAssumption` says what a message is: its length word counts the
  payload unless it is too small for a header, and the document of a define call
  is an XDR string or cannot be decoded. Padding other than zeros, which RFC 4506
  rules out and `DecodeXDRString` does not look at, is the one thing it excludes.
* `HugepagesProofs`: the invariant says how far a run is in its files, and that
  of the group it is writing the nodes before the current one have their part.
  That the parts add up to the count, for any count and any number of nodes, is a
  recursive sum; `SumOfParts` has its closed form.
* `DriverLifecycleProofs`: what each driver holds at each of its steps
  (`PluginInv`, `HttpInv`, `SriovInv`), for any number of signals. `HealthzHonest`
  needs to know when `ready` is set, the context cancelled and the server closed,
  `AbandonedHasCause` that every other way out of `main` stops what was started.

Types are checked by the runs, except for `Proxy` and `Daemon`, whose `TypeOK` is
only proved (`TypeCorrect`).

Recursive functions (`Joined`, `Sum`) are reasoned about by induction over the
naturals, which `WireProofs` and `HugepagesProofs` take, as a statement about
sets (`Induction`), from the library's theorem that `<` on `Nat` is well-founded.

Every invariant and the refinement that the passing runs check are proved. Only
model-checked is liveness, which is out of the prover's reach:
`HangupEndsConnection` and `SentIsForwarded` of `Proxy`, `ReturnsUnlessHeld` of
`HookChain`, `SignalStops` of `Daemon`, `JobEnds` of `WorkerSetup` and
`CancelEnds` of `DriverLifecycle`.

## Abstractions

* Documents are model values in `Proxy` and `HookChain`, short byte sequences
  in `Wire`. Logging is left out, except whether an error is logged.
* `Prints[h][x]` is what hook `h` prints for `x` when it exits with 0; a killed
  or failing hook may have printed that or a torn part of it. A process a hook
  leaves behind holds the output open and prints nothing itself.
* Only a listener that was closed makes `Accept` fail. File descriptors passed
  beside messages, and the limits of the peers, are not modelled.
* In `SriovVF` a device is its address, VF capacity and VFs; PCI address syntax
  is whether it names a PF. The kernel accepts 0, the present number, or any
  number when there are no VFs; it serves one such write at a time, does not
  interrupt it, and makes VFs and links go and come in any order meanwhile. A fault may make any read or write fail; a
  device or NUMA node that cannot be read is passed over, as in the code.
* In `Hugepages`, `nr` is what was written; what the kernel then allocates is
  not. Sizes are those of amd64. There is at least one NUMA node.
* In `RuntimeConfig` a configuration is the set of its settings; a value the tool
  sets and any other value of the same key are two settings. A partly written
  file (`Torn`) is any subset of what was written and what was there that keeps
  keys inside their tables, or not TOML at all; two writers (`Overlay`) may leave
  the end of the longer text.
* In `WorkerSetup` the scheduler counts pods that are not over, on the nodes the
  selector admits, and `early` records that one was over before the last was
  placed. Kubernetes' back-off and deadlines are left out; `Pods` bounds retries.
* In `Dramachine` the IOMMU element and its driver settings are one field.
  In `HookChain` a hook file that is gone, not regular or not executable is one
  state, since `runHook` and `listHookDir` treat them alike.
* `DriverLifecycle` leaves out SIGQUIT, which the SR-IOV driver treats like the
  others, and the five seconds after which the HTTP server's shutdown gives up.

## Not modelled

* The alignment validators read cgroups and sysfs once, compare and print. They
  have no state and nothing interleaves with them.
* Makefile, Dockerfile and manifests are declarative; the wait scripts poll.
* The DRA drivers themselves, containerd, the cluster, libvirtd and the kernel
  are outside the repository; of them the models have what the code here sees.
* Flags, logging, the syntax of PCI addresses, YAML, TOML and XML, the hugepage
  sizes of other architectures, descriptors passed beside messages, and how fast
  a failing `Accept` is retried. The hazards without a property in
  `PROJECT.json` say which of these could matter.
* `Daemon` with `Proxy` in place of its `RunReturns`, and `Proxy` with
  `HookChain` in place of `Chain`, would be further compositions. They were not
  attempted: each part alone has some 10^5 states. `ResultFromHooks`, which
  links the latter two, is proved.
