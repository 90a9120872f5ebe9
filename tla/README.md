# Verification of dns-announce

dns-announce is two Rust crates. `dns-stack` announces and serves a DNS suffix on
an IPv6 link: a beacon sends Router Advertisements that carry a resolver's address,
and a dispatcher answers solicitations and DNS queries. `dns-host-config` tells the
machine it runs on to send queries for a suffix to a given server, through
whichever DNS manager the host has, and takes that back again.

This directory holds TLA+ modules that model both, TLC configurations that check
them on small instances, and proofs of the main results for all instances. Every
definition follows the Rust source; `PROJECT.json` names the lines each one stands
for, the hazards the properties are aimed at, and the disagreements between code
and documentation that came up.

## 1. The system

Paths are relative to `src/crates/`.

| Part | State | Operations | Talks to |
|---|---|---|---|
| `DnsRoute` trait (`dns-host-config/src/lib.rs`) | none | `set(interface, config)`, `reset()` | implemented by four types |
| static backend (`linux/static_resolv_conf.rs`) | `active`; on disk: `resolv.conf`, `resolv.conf.dns-host-config.bak` | `new`, `set`, `reset` | the file system, shared with everything else that edits `resolv.conf` |
| systemd-resolved backend (`linux/systemd_resolved.rs`) | `active_link`; in resolved: servers and domains per link | `probe`, `set`, `reset` | resolved over D-Bus, `/sys/class/net` |
| resolvconf backend (`linux/resolvconf.rs`) | `active`, `registration_name`; in resolvconf(8): a record per name | `probe`, `set`, `reset` | a child process per call |
| chain (`linux/chain.rs`) | the backend picked | `probe`, `set`, `reset` | the three backends, an environment variable |
| configuration (`config.rs`) | none | `DnsRouteConfig::new` | callers |
| beacon and dispatcher (`dns-stack/src/lib.rs`) | position in the loop, the packet in hand, the interval | `spawn`; one turn of each loop | two bounded channels, the resolver callback |
| query handling (`dns-stack/src/dns.rs`) | none | `handle_packet`, `matches_suffix` | dispatcher, `Resolver` |
| advertisements (`dns-stack/src/ra.rs`) | none | build, recognise solicitations | beacon, dispatcher |
| packets (`dns-stack/src/packet.rs`) | none | build, checksum, parse | `ra.rs`, `dns.rs` |
| bridge (application; `examples/basic.rs`) | the channels' other ends | read link, write link, hang up | the link |

What is hard here:

* **Crash safety of a file edit.** The static backend has two files and no atomic
  step over both. What a crash leaves must be recognised by the next instance, and a
  re-set must not take our own output for the host's.
* **A file others write.** NetworkManager, dhclient or an administrator may replace
  `resolv.conf` at any time. Their text must not be lost or overwritten.
* **Calls that fail half way.** `set()` and `reset()` of each backend take several
  steps, each of which may fail or be abandoned (the futures are dropped when a
  caller times out). What the instance remembers then decides what `reset()` does.
* **Things that go away.** A VPN's interface disappears and comes back with a new
  ifindex in the middle of a call; a resolvconf(8) child outlives the call that
  spawned it.
* **Two producers, one bounded channel.** Beacon and dispatcher share `outgoing`,
  with a resolver and a writer of any speed around them, and shut down from either
  side.
* **Arithmetic at the edges.** Carries in the checksum, lengths in 8 and 16 bits,
  padding, length fields that lie.

What makes each component correct:

* backends: after `set()` returns Ok the host uses exactly the config; after `reset()`
  returns Ok it uses none of it and is what the host made it; nothing in between
  shows; nothing of the host's is lost; other owners are left alone;
* tasks: every question gets one reply, its own, in order; nobody starves; both tasks
  stop when they should and not before;
* encodings: a receiver that follows the RFCs reads what was meant.

## 2. Modules

| Module | Models | Role |
|---|---|---|
| `DnsRoute` | the trait's promise: the host's view is the host's own, or one config's, and each call changes it in one step | abstract |
| `StaticResolvConf`, `MCStaticResolvConf` | the static backend, one action per access to `resolv.conf` | detailed; implements `DnsRoute` |
| `StaticResolvConfProofs` | | proofs |
| `SystemdResolved` | the systemd-resolved backend, one action per D-Bus call, links coming and going | detailed; implements `DnsRoute` on every link |
| `SystemdResolvedProofs` | | proofs |
| `Resolvconf`, `MCResolvconf` | the resolvconf backend, several programs, their children and strays | detailed |
| `ResolvconfProofs` | | proofs |
| `Chain`, `MCChain` | `probe()` of the chain and of its backends, one action per look at the host; `set()` and `reset()` of the backend picked; the host, changing | composes the backends, each call one step |
| `ChainProofs` | | proofs |
| `Responder` | a sequential server: packets in, one reply to each that asks | abstract |
| `DnsStack`, `MCDnsStack` | beacon, dispatcher, channels, resolver, bridge | detailed; implements `Responder` |
| `DnsStackProofs` | | proofs |
| `Packets`, `MCPackets` | IPv6, UDP and ICMPv6 octets, checksum, options; a receiver written from RFC 768, 1035, 1071, 4861 and 8106 | algorithms |
| `ChecksumProofs`, `PacketsProofs` | | proofs |
| `Names`, `MCPackets` | routing domains accepted and normalised; a query's name, `matches_suffix`, the example's resolver, the reply | algorithms |
| `NamesProofs` | | proofs |

Each detailed module keeps a few *Slips* beside the actions they are slips of (for
example `SetBeginAfresh`, a `set()` that reads back its own output). No specification
uses them: put in place of the real action they are what a property must catch.

### How they correspond to the code

**StaticResolvConf.** `file` and `backup` are the two paths; `pc`, `cfg`, `orig` are
where an instance is in a call and its locals; `active` is the field. `fs::write` is
two steps, the truncation that `open` does and the write, because that is where a
crash hurts: `SetTrunc`/`SetWrite`, `ResetTrunc`/`ResetWrite`. The backup has no other
reader or writer, so looking at it is part of the step that decides by it. A text is
its marker's owner, its nameserver list and whether there is more; a missing file and
an empty one have the same `Content`, as they do for the code, which records both as an
empty backup. `host` is a history variable: what other software last left there.

**SystemdResolved.** `pc` names the D-Bus call to come. A link has `dns` and `domains`,
the config whose servers or domains it was given. An interface that is made anew gets
an index never used before, as Linux does until its counter wraps. The refinement is one
per link (`Shown`, `Route(l)`): between the two calls of a pair the link shows what the
pair is about to make of it, and a link that a failed or abandoned call left half done
(`torn`) shows nothing until a later pair is complete.

**Resolvconf.** A call spawns a child, feeds it (`Feed`, only `set()` has anything to
write) and waits for its status. The child works on the records in one step, under
resolvconf(8)'s own lock. Abandoning a call, a write error, or death of the process
leaves a child running: it becomes a stray and works when it likes. `registration_name`
filters and cuts the owner string as the code does.

**Chain.** Each look of `probe()` (the symlink, the bus, `PATH`, the shim, resolvconf's
updater, its defaults file) is an action, and between any two of them the host may
change: another program takes `resolv.conf` over, the bus comes up, resolved starts or
stops, resolvconf is installed, removed or reconfigured. `bus` and `resolved` are two
things, because the code opens the system bus (`ConnectToBus`) and never asks whether
resolved is on it: only the calls of `set()` and `reset()` find out (`Answers`). `named` is
whether the look is for the override, which falls back to detection. `set()` is given an
interface: resolved is told of that one (`links`), and the backend remembers it and no
other (`active_link`), so that a second interface stacks on the first as it does in the
code; `record` is what resolvconf(8) holds of ours and `text` what `resolv.conf` itself
says. What the managers do with it is outside the code, and modelled from what the backends
rely on: `Generates` (which file a manager writes), `Anew` (it writes that file anew when
told something) and `InEffect` (what the stub resolver then asks). What the code takes for a
link to resolved (`resolv_conf_points_at_resolved`, a test of the text) and where links
really lead (`LeadsToResolved`) are kept apart; one target of the run passes the first and
fails the second. Two history variables: `last`, the interface of the last `set()` that
returned Ok, and `steady`, the backends that were usable when the probe under way began and
that nobody has meddled with since.

**Names.** A name is a sequence of ASCII codes, because the code works on characters and
the properties are about labels: `split` and `to_ascii_lowercase` are the standard
library's, and a suffix is compared on octets as `matches_suffix` does it. The name of a
question is what `simple-dns` prints of it.

**DnsStack.** Packets are records of the header fields the code looks at. tokio's `mpsc`
hands out places first come first served: a task in `send()` is in `senders` and gets
its place when it is at the head (`Deliver`). When the receiver goes, the queue ends and
every send fails. `due` counts interval periods nobody awaited: tokio's default is to
make up for them in a burst. `Resolve` is the application's callback returning, any
time, with any verdict.

**Packets.** Octet strings are sequences of numbers; the code's casts are `% 2^8` and
`% 2^16`; an index out of range is the value `Panic`.

## 3. Runs

All of them are exhaustive for the bounds given.

| Run | Checks | Bounds |
|---|---|---|
| `static_ioerr` | no host text lost, exact restore, fallback order, `DnsRoute` implemented | one owner, two configs (with and without routing domains), three host texts and no file; crashes and errors anywhere but inside the write of `resolv.conf` |
| `static_faults` | an override can be undone, the next instance knows of it, `reset()` Ok withdraws it | the same, also torn writes and other software writing during calls |
| `stack` | `Responder` implemented, no early stop, no starvation, clean stops | five packets, each pushed once (solicitation on and off link, two queries, one not for us), two verdicts, room for two packets in and one out, two periods unserved |
| `packets` | checksums, round trip, bounds of the parser, options decode; suffixes, accepted domains, equal configurations | payloads of up to four octets out of {0, 1, 254, 255}; ports chosen so that the sum is zero or carries twice; up to three servers and also 126 and 127; up to three names of different lengths; names of up to five characters out of five (dot, hyphen, Z, z and the character after Z) with six suffixes; lists of up to three of ten spellings of domains |
| `resolved` | `set()` Ok is whole, `reset()` Ok undoes it, `DnsRoute` implemented on every link | two interfaces, three ifindexes, two configs, failing and abandoned calls, crashes |
| `resolvconf` | what a call reported is in the registry, programs stay apart | two owners, two configs (symmetric), one stray each, all faults |
| `chain` | the first backend whose tests pass is picked, none that was there throughout is passed over, what `set()` reported is in effect, nothing is left behind by a restart, `probe()` ends | five targets of `resolv.conf`, three `PATH`s, four settings of the knob, the updater Debian's or not, the bus up or down, resolved up or down: 480 hosts, with every override; two interfaces, one config with a loopback server |
| `static_torn`, `static_owners`, `stack_shutdown`, `resolved_partial`, `chain_stale` | one documented promise each that the code does not keep | as small as shows it |

Why the bounds suffice: a backend instance has one call under way at a time and
remembers a boolean or an index, so two configs and one owner show every way a call can
inherit from an earlier one; calls repeat without bound. In `stack`, an output channel
of one place makes both tasks wait in every order, an input of two has a packet queue
behind another, and a fifth packet arrives when something has been answered. One stray
is enough for it to overtake a later call. The one fixed bound on behaviour is that a
packet is pushed once (`offered`), which gives replies an identity. In `resolved` a third
ifindex lets an interface come back while a call still holds its old one. In `chain` the
host changes any number of times; `changed` records only whether it did, so that a property
may speak of the host the probe saw. Two interfaces are enough for one to be forgotten over the
other; one config is enough because each call of a backend replaces what its place held
(a link, the record, the text), and a second one makes four times the states. Five
characters hold two labels between three dots, which is every way a suffix, a dot and an end
can meet. `static_owners` bounds how often the
two owners wrap each other's text (`BoundedTexts`).

`CHECK_DEADLOCK FALSE`: in `stack` and `stack_shutdown` both tasks may have stopped and
the bridge be gone; in `packets` the state is an input that has reached its bound.

**Fairness.** `DnsStack!FairSpec`: tokio runs a ready task eventually (`Beacon`,
`Dispatcher`), time passes (`Elapse`), and the bridge's writer keeps taking packets
(`Drain`). Nothing is assumed of the packets that come or of shutdown, nor that the
application's resolver returns: where a property needs that, it says so
(`ResolverReturns`, the antecedent of `EveryPacketHandled` and of the dispatcher's half of
`ClosedChannelsStopTasks`), and the beacon's properties hold without it. Weak fairness is
enough because `senders` is first come first served: a task at the head stays enabled until
it has its place. `Chain!FairSpec`: a `probe()` that has begun goes on (`Probe`), since none
of its looks waits for anything but the file system and the bus. That the connection to the
bus is made or refused in the end is an assumption: the code has no timeout for it. Nothing is
assumed of the host, or of when callers call.

## 4. What the code does not keep

Found by runs, each with the line of documentation it contradicts in `PROJECT.json`:

* `static_torn`: a write of `resolv.conf` cut short leaves an unmarked file; the next
  `set()` backs it up over the saved original.
* `static_owners`: two owners share one backup; the `reset()` of the first removes what the
  second needs, whose `reset()` then returns Ok and undoes nothing. No fault is involved.
* `stack_shutdown`: closing `incoming` does not stop the beacon.
* `resolved_partial`: a `set()` that fails, or is dropped, when resolved has already obeyed
  its first D-Bus call leaves servers on the link that no `reset()` removes; one whose second
  call fails does the same.
* `chain_stale`: the backend is picked once, and `resolv.conf` is looked at once; when the
  host's DNS manager changes after that look, `set()` returns Ok and nothing consults what it
  set.

Read off the code, without a run of their own:

* `reset()` of the static backend overwrites a file that lost its marker after it looked, and
  a retry after one that failed returns Ok and does nothing (the invariants except such an
  instance, `botched`);
* an existing empty `resolv.conf` is removed by `reset()`;
* a second interface stacks on the first (systemd-resolved), and only the second is undone;
* with resolved stopped and its symlink left, `probe()` picks systemd-resolved all the same,
  since it opens the bus and asks no more; every `set()` then fails;
* owners whose names are the same once filtered and cut undo each other (resolvconf);
* an empty assignment in `/etc/default/resolvconf` does not count as unset (`KnobIsPlain`
  excepts it);
* `Resolvconf::probe` accepts a resolvconf whose file `resolv.conf` is not
  (`SetOkTakesEffectAsProbed` excepts it);
* a domain with several dots at its end is accepted.

## 5. Proofs

TLAPS checks them for every value of the constants that meets the assumptions.

`StaticResolvConfProofs`:

* `TypeCorrect`, with no assumption beyond the constants' own.
* `OverridesAreUndoable`, for one owner and all faults but `unreadable`. The property is
  not inductive: a crash may leave `resolv.conf` half way through any call. `UndoInv`
  adds, for each step of a call, what has been established by then (from `trunc` on
  there is a backup that is not our own output; from `remove` on it is still there).
* `ResetsWithdraw` and `OwnOverridesAreActive`, for the same faults, torn writes included.
  `WithdrawInv` says at which steps of which calls the file may still hold our marker: an
  instance that is not `active` never faces a file of its own, unless its own `reset()` had
  failed.
* `HostTextIsPreserved`, `ResetsRestoreTheHost`, `FallbackIsKept`,
  `StaticImplementsDnsRoute`, for one owner and faults out of `crash` and `ioerr`. `HostInv` relates `orig`, `backup` and `host` step by step: while a
  call is between the truncation and the write, the local copy and the backup are both
  the host's text.

The assumptions are real limits of the code: with torn writes (`static_torn`) or two owners
(`static_owners`) the same statements are false.

`DnsStackProofs`, for any packets, verdicts, addresses and capacities:

* `TypeCorrect`, which says that no channel exceeds its capacity;
* `StackImplementsResponder`, the refinement. Its invariant (`Handling`) ties the
  dispatcher's state to the packet in hand: it sends only replies the packet may get.
  Sending maps to `Answer`, receiving something to be dropped to `PassOver`, and the rest
  to stuttering;
* `StopsWhenDone`. `CountInv` counts by sets: the packets offered that ask for a reply are
  the replied ones, the one in hand and the ones still queued (`Answered`), each once, since
  a packet is offered once. When the dispatcher stops, the last two are empty.

`SystemdResolvedProofs`, for any interfaces, configs, number of ifindexes and faults:

* `TypeCorrect`; `SetsAreWhole`, `ActiveLinksRoute` and `ResetsUndoSets`;
  `ResolvedImplementsDnsRoute`, the refinement on every link.
* None of these is inductive. A call works on its link in two steps, and between them the
  link shows neither config: `PairInv` says what the second step may count on, unless the
  link has gone. `ActiveInv` and `OwedInv` say what the remembered link and the link of the
  last successful `set()` hold at each step of a later call, `EvenInv` that a link nobody
  is at work on, and that is not torn, is whole. All of it rests on `OneInterface`: since
  an ifindex is never handed out twice, a link that goes takes no other with it.

`ChainProofs`, for any hosts, `PATH`s, settings of the knob and overrides:

* `TypeCorrect`, `PickedByPriority`, `NothingPassedOver`, `SetTakesEffect`,
  `OthersStayReachable`, `NothingIsLeft`.
* The invariant compares a probe with `Choice`, the backend that a probe of the host as it is
  now would come to. `ProbeInv`: on a host unchanged since the probe began, each look taken
  is still true, and what was picked is still the choice. The step that needs thought is a
  call of the backend itself, which may rewrite `resolv.conf`: `CallsKeepChoice` shows that
  resolvconf taking it over changes nothing, because resolved was not the choice before and
  is not after.
* `NothingIsLeft` needs to know where something of ours may be (`OursInv`): with the backend
  of choice and nowhere else, which is the one a restarted process comes back to; and an
  instance with nothing to undo has left nothing there, or, where that is resolved, nothing on
  the interface of its last `set()`. Of the other interfaces it says nothing.
* `NothingPassedOver` is about a host that does change. `SteadyInv`: what was usable when the
  probe began, and has been left alone, still is, and the looks have not gone past it.
* `PicksByPriority` is stated with a choice of the first usable backend, a last assignment
  and a first file in `PATH`; `PlainKnob` and `FirstFile` show for lists of any length that
  the code's tests amount to those.

`ResolvconfProofs`, for any owners, configs and faults:

* `TypeCorrect`, with no assumption beyond the constants' own.
* `LoneOwnersAreServed`: an owner that has its registration name to itself (`Alone`) finds
  its record as its last call reported it, however many of the others share a name. The code
  leaves names to the application (it filters and cuts the owner string); the theorem says
  that a clash hurts those who clash and nobody else. `SetsAreInPlace` and `ResetsUndo`, the
  properties of the run, follow where no two names are the same (`NamesDiffer`).
* The invariant is a conjunction per owner, `OwnInv`: what a call knows of its child
  (`CallInv`), what the record holds at each step as long as no stray is at work
  (`RecordInv`), and what a later `reset()` owes the last successful `set()` (`OwedInv`), for
  the owners that are alone; that children keep to the name of their owner (`NamesInv`) holds
  of all. `StepIsOwn` and `StepIsOnRecord` split every step: it is one owner's, and the record
  it touches is that owner's, so the conjuncts of an owner that is alone carry over.

`ChecksumProofs`, for octet strings of any length:

* `MessagesAddUp`: with the checksum in its place the words add up to a multiple of
  2^16 - 1, and when the checksum is zero they do with 0xffff instead. `SumsFit`: no sum
  exceeds a u32 for a message of less than 65 536 octets.
* The library's induction theorems take an operator as a parameter, which the provers
  cannot instantiate; they are replaced by statements about sets, proved from a least
  counterexample (`LeastNumber`): `Upwards` over the numbers up to n, `Appending` over the
  sequences of a set, and `Recursion` and `JumpsExist` for the function that a loop computes
  turn by turn, or by jumps. A loop of the code is a function on its first n turns:
  `RunExists` shows that there is one, `LoopRuns` that it is what the model's definition
  computes, `LoopConcat` and `LoopAdds` that sums of parts add up. For the carry,
  `FinishIsComplement` gives the fold's closed form (`Folded`): 0, or the number from 1 to
  65535 congruent to the sum; `FoldRound` is one turn of it.
* The sum is a u32 in the code and an unbounded number in `Packets`. `SumsFit` is why that
  makes no difference to a packet, whose length has 16 bits; for strings of more than 131 000
  octets, which nothing builds, the theorems speak of the model only.

`PacketsProofs`:

* `ParserStaysInside`, for every string of octets; `RoundTrip`, for any addresses, ports,
  padding and payload of up to 65 527 octets, the most a 16-bit length can tell (the code
  has no check, see the hazards); `DatagramsVerify`, for payloads of any length;
  `AdvertisementsVerify` and `AdvertisementLayout`, for any configuration, its names and
  addresses being octets (the second for options of up to 65 519 octets).
* The receiver adds modulo 2^16 - 1 word by word, the sender adds first and folds the
  carries at the end: `ReceiverAdds` and `AddsUpVerifies` relate the two. `HeaderFields`,
  `UdpFields` and `AfterChecksumFields` say which octet is where.
* `OptionsDecode`: a host reads back exactly the servers and the domains, in order, whatever
  they are, as long as they fit: up to 127 servers, up to 2 032 octets of names (beyond that
  the length octet of an option overflows) and labels of 1 to 63 octets. `FlattenPlaces` says
  where each string of a concatenation ends up; `OptionsReadBack` that the reader cuts the
  octets where one option ends; `ServersReadBack` that the servers are 16 octets each;
  `NameReached` that the reader, come to where a name begins, comes to where it ends with
  that name read, and `NamesReadBack` that nothing is read from the padding, which
  `PaddingFills` shows to be right for every length modulo eight. That the code checks none
  of these three limits is listed under the hazards.
* `PacketsVerify`, `DatagramsRoundTrip`, `ParsesStayInBounds` and `AdvertisementsDecode` are
  the invariants of `MCPackets` that follow, for every set of octets and every bound
  (`InputsInv`: the inputs stay octets), the last one for a `ManyServers` of up to 127
  (`FittingInv`: servers and domains stay within the limits). Two of them assume that
  `Panic` is not itself a string of octets, as in the run, where it is a model value.

`NamesProofs`, for texts of any length and any characters:

* `SuffixesAreLabels`: `matches_suffix` holds exactly if the labels of the name end in those
  of the suffix, whatever the case. One way, the labels of two texts with a dot between them
  are those of each (`SplitConcat`); the other way, labels that end in the suffix's come from
  a dot at that place (`SplitBack`), and equal labels from equal texts (`SplitInjective`).
* `DomainsAreLabels`: `is_valid_domain` accepts letters, digits and hyphens, with dots that
  do not come first, nor two in a row unless nothing but dots follows. `EmptyLabels` says
  where an empty label comes from, `LabelCharacters` what the labels are made of, `Trimmed`
  what `trim_end_matches` leaves.
* `RepliesFollowLabels`: what a question is answered, for any suffix and any map whose names
  are in lower case (one that is not is never found, since the query is lowercased first);
  `RecordsAreAsked` for any list of addresses the resolver may return.
* `EqualIfDenotedAlike`: for any two lists of any texts, normalisation keeps what a list
  denotes, each domain once, and makes two lists the same exactly if they denote the same.
  `Before` is a strict total order of texts (`BeforeTransitive`, `BeforeIrreflexive`,
  `BeforeTotal`), so inserting one by one sorts (`InsertKeepsOrder`, `Sorts`), dropping equal
  neighbours of a sorted list leaves it strictly ascending (`Dedups`), and a strictly
  ascending list is determined by its elements (`StrictKnown`). The standard library's
  unstable sort is modelled by an insertion sort: of equal strings it cannot matter which
  comes first.
* `DomainsAccepted`, `OthersRefused` and `ConfigsRouteAlike` are the invariants of `MCPackets`
  that follow, for names and lists of every length (`NameInv`, `DomainsInv`).
* Induction is over sets, with the lemmas of `ChecksumProofs`. `split` is followed character
  by character (`SplitStep`, `StepShows`, `StepBack`).

`RecordsAreSeparate` is left to its run: beyond `LoneOwnersAreServed` it says only that a
child carries the name of its owner.

Only model-checked: the liveness properties (`EveryPacketHandled`, `BeaconKeepsBeating`,
`ClosedChannelsStopTasks`, `ProbeReturns`), which, stated under fairness, are out of the
prover's reach. Every other invariant and action property of a passing run, and both refinements
of `DnsRoute` and the one of `Responder`, are theorems under the assumptions above.

## 6. Not modelled, and why

* Inside a call, the host of `Chain` stands still: `set()` and `reset()` are one step there,
  and their own interleavings are in the backends' modules. A common module of all four
  would multiply their states and show nothing these do not.
* The managers themselves (resolved, resolvconf(8), the kernel's links): only what the
  backends see of them.
* `encode_addr` (octets of an address for D-Bus), `render`'s layout, error texts.
* A label with a dot in it: how `simple-dns` prints such a name is its own matter.
* A `resolv.conf` that cannot be read (`unreadable`) is in `StaticResolvConf` and in none of
  the runs: the backend takes it for somebody else's, and backs up its own output.
* Device setup and the constants of `main()` in `examples/basic.rs`; container images; tests.
* The DNS message encoding (`simple-dns`) and glibc's behaviour on REFUSED and with more
  than three nameservers: outside this code.
* A partial write: an interrupted `write()` counts as having written nothing. What follows
  is the same, since the marker is the first line and the check is on that line.
* Host edits that keep our marker in the first line: the code cannot tell them from its own.
* Two calls on one instance at a time: `&mut self` excludes them.
* Logging, error texts, `#[non_exhaustive]` and other matters of the API's shape.
* A reply that fails to serialise (`build_bytes_vec_compressed`): replies the code can
  construct do serialise.

## 7. Plan

1. (done) The static backend with its proofs; the tasks with theirs; `Packets`;
   systemd-resolved with all its faults; resolvconf; the chain; `Names`; two owners on the
   static backend; the proofs of `SystemdResolved` and `Chain`.
2. (done) The proofs of `Resolvconf`, of what was left of the static backend and of the tasks,
   of the checksum, the parser and the layout of packets, and of `Names`.
3. (done) The proofs that the options of an advertisement are read back, and that a
   normalised list denotes what was configured.
4. What is left: liveness stays with the runs.
