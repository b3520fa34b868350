# TLA+ models of the Click IPFilter classifier and its neighbours

This directory checks, with TLC, the parts of the router in `src/` that have
state machines or algorithms a model checker can explore. The packet
classifier `IPFilter` (`src/elements/ip/ipfilter.cc`, `ipfilter.hh`) comes first. It
compiles a tcpdump-like filter into a flat decision program and runs that
program on every pushed packet (spec.md sections 2-4).

## The system and how its parts interact

IPFilter has two phases:

* **Configuration** (`IPFilter::configure`). The phase runs single-threaded:
  * each clause is tokenized (`separate_text`);
  * the tokens are parsed by recursive descent (`parse_expr` ... `parse_factor`)
    into `Primitive`s;
  * each primitive is normalised (`Primitive::check`, `set_mask`);
  * each primitive is emitted as equality tests into a Classifier expression
    tree (`add_exprs`, `add_comparison_exprs`).

  The Classifier base class (`classifier.cc`, not in `src/`) then lowers, optimises and
  compresses the tree into `_prog`. It also computes `_safe_length` and
  `_output_everything`.
* **Classification** (`IPFilter::push`, `length_checked_push`). For each packet
  the engine reads masked 32-bit words at offsets. The offsets lie in a
  unified space, where an offset of 64 or more addresses the transport header.
  The engine follows the yes/no targets until a non-positive target names an
  output. The program is immutable, so concurrent pushes share nothing.

Two more components have their own state machines and are modelled:

* **Source, queue and unqueue** (`ratedsource.cc`, `notifierqueue.cc`,
  `mixedqueue.cc`, `ratedunqueue.cc`). A RatedSource task pushes into a
  queue while it is active and below its limit; the `active`, `limit` and
  `reset` write handlers change that. At the limit `run_task` returns
  without rescheduling, so a handler must reschedule the task; a RatedUnqueue task pulls from it. The queue's
  empty notifier (an ActiveNotifier) turns off after `SLEEPINESS_TRIGGER` empty
  pulls and the task then stops rescheduling itself; the producer's `wake()`
  reschedules it. With `HAVE_MULTITHREAD` push and pull run on different
  threads and every shared read or write is a step of its own.
* **ARPTable** (`arptable.cc`). A table of IP→Ethernet entries with a queue of
  packets waiting for each unresolved address, an age list, entry and packet
  capacities and a timeout. ARPQuerier calls `append_query` and `insert`, the
  handlers call `insert`, `delete` and `clear`, and a timer calls `slim`.

* **IPReassembler** (`ipreassembler.cc`). Fragments of a datagram are
  collected in one queue packet per datagram, hashed into buckets of `_map`.
  The received byte ranges form a linked list whose links live inside the
  packet's own holes. A periodic `reap()` drops old queues, and
  `reap_overfull()` drops queues when `_mem_used` passes the high threshold.
* **StaTest** (`elements/local/staTest.cc`). A monitor of 802.11 stations.
  `push` classifies each frame and refreshes or appends the station it names;
  a one-second timer updates the stations' variance attack counters and
  forgets stations unseen for 90 seconds.
* **The heap of `algorithm.hh`** (`push_heap`, `change_heap`, `remove_heap`,
  `pop_heap`). A binary heap that reports every element's new position to
  the client through a `place` callback.
* **String** (`lib/string.cc`). Strings share reference-counted memos. An
  append claims the memo's free space in place by compare-and-swap on
  `dirty`; `c_str` writes its terminator in place when it can; `mutable_data`
  copies a shared memo before handing out writable memory. With
  `HAVE_MULTITHREAD` (the `Concurrent` constant) Strings sharing a memo are
  used from several threads.

* **ICMPPingRewriter** (`elements/icmp/icmppingrewriter.cc`). A NAT for
  ICMP echo. A new echo flow gets a pair of mappings to the configured
  source and destination with a fresh `_identifier`: the forward one in
  `_request_map`, the reverse one in `_reply_map` under the reply flow.
  `apply` rewrites addresses and identifier and updates both checksums
  incrementally. A timer frees pairs that saw no packet since its last run.

* **TCPRewriter's sequence deltas** (`elements/tcpudp/tcprewriter.cc`,
  `tcprewriter.hh`). A proxy in front of the rewriter (FTPPortMapper in
  Click) that changes a segment's payload length calls
  `update_seqno_delta(trigger, d)`. `apply` then shifts `th_seq` of the flow
  by `new_seq` and `th_ack` of the reverse flow by `new_ack`.

* **ToDevice** (`elements/linuxmodule/todevice.cc`). The kernel element
  that feeds a network driver. Its task pulls from the upstream queue and
  calls the driver's `hard_start_xmit`; a packet the driver refuses is held
  in `_q` and retried first, unless `queue_timeout` has passed. Three
  things wake the task: the upstream queue's empty notifier, the kernel's tx
  notifier when the driver wakes its queue (`HAVE_CLICK_KERNEL_TX_NOTIFY`),
  and the netdevice notifier on carrier changes and device up/down
  (`change_device`). At the end of each run the task decides whether to
  reschedule itself.

* **FromHost** (`elements/linuxmodule/fromhost.cc`). The reverse direction:
  a fake network device whose `hard_start_xmit` (`fl_tx`) stores the
  kernel's packets in a ring and reschedules a task. The task takes
  packets off the ring and pushes them downstream (or out of output 1 when
  TYPE IP finds no valid header), until the downstream queue's full
  notifier turns off. `fl_tx` runs in a bottom half that does not
  exclude the task; on SMP it runs beside it.
* **FastTCPFlows** (`elements/linuxmodule/fasttcpflows.cc`). A benchmark
  source of TCP flows. Each flow has a SYN, a DATA and a FIN skb built
  once; `pull` hands out new references to them, and `change_ports`
  rewrites the three skbs in place when a flow starts over. The device
  element that pulls puts the references on the driver's transmit ring.

The parser model works on meanings rather than trees. A pattern's meaning is
the set of packets it matches, out of a small set of packets given as
records `[src, dst, proto, sport, dport]`:
* the Classifier's and, or and ternary nodes become intersection, union and
  `(c ∩ a) ∪ (¬c ∩ b)`;
* `negate_expr_subtree` becomes complement;
* a comparison is its relation on `_u & _mask`, since `IPFilterCompare`
  shows the emitted trees exact.

Data words are model values mapped to addresses (`AddrOf`), integers
(`IntOf`) and protocol names (`ProtoDB`).

The remaining elements of `src/` (the other rewriters, device glue, generators, header
editors) are listed in `PROJECT.json` with their status.

## Modules

| Module | Models | Source |
|---|---|---|
| `IPFilterCompare` | `Primitive::set_mask` and `add_comparison_exprs` on a W-bit word (W = 32 in the code), for one generic field primitive `[bitoff:len] & MASK OP data`. It also holds the expression-tree nodes of the Classifier interface (a leaf `word & mask = val`, and/or/not/ternary nodes) and their meaning on a packet, from spec 3 and 4.4-4.6, since that code is outside `src/`. | ipfilter.cc 208-256, 517-526, 554-619, 676-681 |
| `IPFilterProgram` | The compressed program: steps with offset, mask, values, and relative yes/no targets in words; packets as byte maps in the unified offset space; the host-order word comparison; `checked_output_push`. | ipfilter.hh 186-196, ipfilter.cc 1205-1298 |
| `IPFilterClassify` | The abstract classification of spec 4.9. One atomic step decides a packet's output by walking the program, where a step matches only if the bytes its mask selects are all inside the packet. | spec 4.9 |
| `IPFilterEngine` | `push` and `length_checked_push` as a state machine. The actions are Push (choose `_output_everything` or the loop), Load (`check_length`, `length_ok`, or `failure`), Scan (linear loop), Probe (one binary-search round) and Branch (`gotit`). Bytes read past the packet's end are an arbitrary choice from `Garbage`. | ipfilter.cc 1205-1298 |
| `NotifierQueue` | The SimpleQueue ring (capacity + 1 slots), the notifier, and `push` / `pull` split at each shared access: push reads `_head`, stores and publishes `_tail`, then wakes; pull reads in `deq`, writes `_head`, sleeps and (multithreaded) rechecks the size. | notifierqueue.cc 24-93 |
| `MixedQueue` | `push` on port 0 (FIFO at the tail) and port 1 (LIFO at the head, evicting the tail packet when full), then the wake on the empty→non-empty edge. | mixedqueue.cc 40-72 |
| `RatedUnqueue` | `run_task`: pull, push downstream, and reschedule unless the pull failed and the notifier is off. The rate is abstracted: a run that is not yet due is a stutter. | ratedunqueue.cc 48-72 |
| `RatedSource` | `run_task` with a push output: returning at once when inactive or at the limit (stopping the driver with STOP), or starting the push and, once it returns, counting it and rescheduling; the `active`, `limit` and `reset` write handlers. The rate is abstracted as in `RatedUnqueue`. | ratedsource.cc 29, 61-109, 176-262 |
| `QueuePipeline` | RatedSource, the queue and the RatedUnqueue task composed, with the queue kind a constant. The source's push is the queue's push. Write handlers run only with both threads outside the elements. | |
| `ARPTable` | Every operation as one atomic action (all run under the write lock), over a record view of the table; `slim`'s two loops as recursive operators; each `click_jiffies()` call a separate reading of the clock, held modulo 2^`JiffyBits` and compared by `click_jiffies_less`'s signed difference. | arptable.cc 33-329 |
| `IPReassembler` | `simple_action` (reap check, length checks, `reap_overfull`, `make_queue`, extension with `put`, chunk patching with the ChunkLinks written into q's holes, MF clearing, `emit_whole_packet`), `reap` and `reap_overfull`, each atomic, byte by byte over a 20-byte datagram. A byte of q is data, a link byte or junk. | ipreassembler.cc |
| `StaTest` | `push` and `run_timer` as two atomic actions. Time is each station's age in timer periods; the long variance is compared exactly (`n·Σx² − (Σx)² > k·n²`); `printStations`' erase during iteration is a recursive operator returning every list the loop can leave. | staTest.cc 74-498 |
| `PrioritySet` | Abstract: a set of elements with keys; insert, rekey, remove and pop of a least element. | |
| `ClickHeap` | The four heap operations as recursive `SiftUp` / `SiftDown` over a sequence, with `place` recording positions, and the client that keeps those positions. It instantiates `PrioritySet` with `members <- Members`. | algorithm.hh |
| `ClickString` | Memos with refcount, capacity, dirty and bytes; Strings as (memo, offset, length). assign from a literal, substring, append of a literal or of itself, `c_str` and `mutable_data` are split at every shared access (the `dirty` read and CAS, the copy, the deref), so threads interleave. Allocation may fail, giving the out-of-memory String. Bytes past `dirty` are garbage and may read as NUL. | string.cc 300-470 |
| `ICMPPingRewriter` | `push`, `run_timer` and `cleanup` as atomic actions over `_request_map`, `_reply_map` (functions from flows), the Mapping objects and `_identifier`, which wraps at `IdBits`. Checksums are left to the next module. | icmppingrewriter.cc 29-304 |
| `ICMPPingChecksum` | `Mapping::initialize`'s deltas and `apply`'s incremental updates, on words of `W` bits, with a full recomputation as the reference. | icmppingrewriter.cc 125-194 |
| `TCPSeqDelta` | The TCPMapping's `_trigger`, `_delta` and `_old_delta`; `update_seqno_delta`, `new_seq` and `new_ack` on `SeqBits`-wide sequence numbers compared by signed difference; a sender that sends within a window and retransmits, a proxy that resizes chosen segments, and ACKs that arrive late and repeated. | tcprewriter.cc 33-49, 110-143; tcprewriter.hh 158-169 |
| `IPFilterText` | `separate_text` over a text of one-character strings: whitespace skipping, the two-character operators, one-character punctuation, identifier runs, and the empty word pushed at the end of a text that ends in whitespace. | ipfilter.cc 692-736 |
| `IPFilterParser` | One pattern of `configure`: `parse_expr`, `parse_orexpr`, `parse_term` and `parse_factor` as mutually recursive operators over the word sequence, returning the position reached, the packet set built, `prev_prim` and an error flag. `parse_factor`'s hard case has the qualifier loop, the relational operator and the data word; `lookup`, `Primitive::check` with `set_mask`, and `add_exprs` turn the primitive into the set of packets it matches. A chart parser of the documented grammar is the reference. | ipfilter.cc 33-57, 86-141, 175-255, 351-464, 530-669, 759-832, 887-1074, 1091-1143 |
| `ToDevice` | `run_task` as one atomic action (it holds the xmit lock): the burst loop is a recursive operator returning every way it can end, through `_q`'s expiry, the pull, `queue_packet`'s padding copy (original skb freed, copy may fail) and the driver's accept or refuse; then the reschedule decision. `tx_notifier_hook`, `change_device` through `device_notifier_hook` (NETDEV_CHANGE, DOWN, UP) and the upstream `push` with its notifier wake are actions. `freed` records packets whose own skb was freed. | todevice.cc 81-168, 229-493; notifierqueue.cc 50-73 |
| `FromHost` | `fl_tx` split at its shared accesses (the device lookup and full check, `_task.reschedule()`, the slot store, the `_tail` write) or, without SMP, as one step; `run_task` up to and after its last emptiness test; `fl_open`, `fl_close`, `cleanup()`; the downstream queue's pull with its full-notifier wake. | fromhost.cc 183-188, 263-295, 320-446 |
| `FastTCPFlows` | `pull` through `get_packet` (the flow `click_random` picks, `change_ports` as a new generation of the flow's ports, the FIN sweep at the limit), the `reset`, `active` and `limit` handlers, and a transmit ring on which references wait until the NIC sends them with the ports their skb has then. | fasttcpflows.cc 64-161, 294-399 |
| `MCIPFilterParser`, `MCIPFilterEngine`, `MCIPReassembler`, `MCStaTest` | Model instances for TLC. | |

How the engine's state corresponds to the code:

* `pc` is `pr - _prog.begin()` in words;
* `data` is the masked word;
* `lo` and `hi` are `pp` and `px`, as value indices;
* `tgt` is `off` at `gotit`;
* `path` records which loop `push` chose.

`IPFilterEngine` instantiates `IPFilterClassify` with the identity mapping on `pkt` and `res`.
The property `ImplementsClassify` asserts the abstract specification. Its
liveness part says the packet is eventually decided. That is
`WF(Classify)` of the abstract specification, because Classify is enabled
exactly while the packet is undecided.

## Runs

| Run | Checks | Shows |
|---|---|---|
| `compare_x86_shift` | `DecompositionExact` (violation expected) | For every field position, length, provided mask (legal and illegal), operator, negation and threshold, the emitted tests should accept exactly the words whose masked field satisfies the relation. W = 5, where a shift by the width leaves the word unchanged, as on x86. See Findings. |
| `engine` | `TypeOK`, `FastPathInBounds`, `ImplementsClassify` | The engine runs on the program of `IPFilter(allow dst port 21 or 22 or 23 or 25 or 53 or 80 or 443 or 8080, 1 tcp syn, drop all)`, laid out as the compiler lays it out. That layout has a two-value protocol step, an eight-value binary-search port step and a SYN test, and 2 outputs. The packets cover 648 distinct header combinations, with transport lengths 0-16 around every step's word boundary. See the details below. |
| `queue_notifier_mt` | `TypeOK`, `FifoConserved`, `SleepingOnlyWhenEmpty`, `AcceptedLeave` | Multithreaded NotifierQueue under RatedUnqueue: FIFO order and no loss under every interleaving; the task never sleeps on a non-empty queue (the size recheck after `sleep()` closes the lost-wakeup window); every accepted packet eventually leaves. The source, whose limit may be set to 2 and lifted again, resumes after every `active` or `reset` write while it may push (`ResumesUnlessLimitWritten`). 21.6k states. |
| `arp` | `NoFreedEntryUse`, `AgeOrdered`, `PacketsAccounted`, `WithinCapacity` | With the clock constant during each call: `_age` stays ordered by `_live_at_j`; `_entry_count` and `_packet_count` equal what the table holds and every packet is queued, returned, killed or sent; capacities hold after each call; no packet is queued on a freed entry. 397k states. |
| `arp_clock_tick` | `NoFreedEntryUse` (violation expected) | The clock may advance between two `click_jiffies()` calls of one operation: see Findings. |
| `reassembler` | `ChunksWellFormed`, `MemAccounted`, `EmittedIntact`, `CompleteIsEmitted` | Consistent fragments of two datagrams arrive reordered, duplicated and overlapping, with allocation failures, reaps and `reap_overfull`. The chunk list stays as `check()` requires, `_mem_used` is exact, every emitted datagram holds exactly the fragments' bytes, and no complete datagram stays queued. |
| `reassembler_short_last` | `EmittedIntact` (violation expected) | A last fragment ending inside the datagram gets a ChunkLink written over received data: see Findings. |
| `string_st` | `RefcountsExact`, `ValuesPreserved`, `CStrTerminated` | One thread, two Strings: refcounts stay exact, sharing never changes another String's characters, and `c_str`'s terminator stays. `CopyReadsLiveMemo` is not checked here: with one thread nothing can drop a reference between `mutable_data`'s refcount test and its deref, so it would only restate that test; it is checked where a second thread can, in `MCClickStringMutableRace.cfg`. 680k states. |
| `todevice` | `TypeOK`, `PacketsAccounted`, `SentInOrder`, `PushedLeaves` | ToDevice with the tx notifier, three packets, a burst of 2, a driver that may refuse two packets (stopping its queue when it does) and may stop its queue when its ring fills, carrier changes, and one NETDEV_DOWN/UP. Every pushed packet is upstream, held, sent, expired or lost exactly once; the driver receives packets in push order; every pushed packet eventually leaves. 36k states. |
| `todevice_pad` | `HeldSkbLive` (violation expected) | Padding on and one short packet without tailroom: the held packet's skb has been freed. See Findings. |
| `fromhost_lost_wakeup` | `AcceptedLeave` (violation expected) | With SMP, `fl_tx` reschedules the task before it publishes `_tail`: see Findings. With `SMP = FALSE` in the same configuration the property holds (662 states). |
| `parser_grammar` | `GrammarAgrees` | Every pattern of up to five words over `( ) not and or ? :`, two addresses and `false`: configure accepts it exactly when the grammar in the comment above `parse_expr` derives it, and it matches the packets the grammar's boolean reading does (juxtaposition is and, the ternary chain nests to the right). 222k states. |

The runs above are the ones `PROJECT.json` lists. Each further
configuration below checks one more module or one more question with the
same command, `tlc -workers 2 -config <cfg>.cfg <module>`, with the module
the table names. TLC gives
the result stated.

| Configuration | Checks | Shows |
|---|---|---|
| `MCQueueMixedST.cfg` (module `QueuePipeline`) | `Conserved`, `SleepingOnlyWhenEmpty`, `AcceptedLeave` | MixedQueue, single-threaded: each accepted packet is downstream, in flight, in the ring or evicted, exactly once, and every accepted packet that is not evicted leaves. |
| `MCQueueMixedMT.cfg` (module `QueuePipeline`) | `Conserved` (violation expected) | MixedQueue with `HAVE_MULTITHREAD`: see Findings. |
| `MCIPReassemblerReap.cfg` | `ReapedOnlyStale` (violation expected) | A queue started by a later fragment has timestamp 0 and is reaped at once: see Findings. |
| `MCStaTest.cfg` | `UniqueStations`, `StaleForgotten` | No MAC is listed twice, and a station unseen for ForgetAge periods is eventually forgotten, whichever way the erase inside `printStations`' loop behaves. |
| `MCClickHeap.cfg` (module `ClickHeap`) | `HeapOrdered`, `PositionsTracked`, `Refines` | Under every sequence of pushes, key changes, removals at a placed position and pops, the heap order holds, every position `place` recorded is current, and the heap implements `PrioritySet`. 165k states. |
| `MCClickStringCStrRace.cfg` | `CStrTerminated` (violation expected) | `c_str` races another thread's append: see Findings. |
| `MCClickStringMutableRace.cfg` | `CopyReadsLiveMemo` (violation expected) | `mutable_data` races the other sharer's deref: see Findings. |
| `MCICMPPingRewriter.cfg` (module `ICMPPingRewriter`) | `MapsOwnLive`, `PairsConsistent` | Two clients ping one server through a NAT address, with replies for every identifier, pass-through, kills, allocation failures, garbage collection and cleanup. The maps own exactly the live mappings, and every mapped echo flow keeps its own reply entry. 118k states. |
| `MCICMPPingRewriterWrap.cfg` | `PairsConsistent` (violation expected) | After `_identifier` wraps, a new flow takes a live mapping's reply entry: see Findings. |
| `MCTCPSeqDeltaTwo.cfg` | `AckTranslated` (violation expected) | Two resizes in one window: see Findings. |
| `MCIPFilterParserNot.cfg` | `NotStartsFactor` (violation expected) | `tcp not A`: see Findings. |
| `MCIPFilterParserPort.cfg` | `PortRelationPerSide` (violation expected) | `port < 80`: see Findings. |
| `MCToDeviceStall.cfg` (module `ToDevice`) | `PushedLeaves` (violation expected) | With the tx notifier, one failed padding copy strands the packets behind it: see Findings. |
| `MCIPFilterText.cfg` (module `IPFilterText`) | `TextLossless` | Every text of up to five characters over space, identifier characters, `:` and the operators `& = < ! (` is cut into words that hold every non-space character once and in order, and no space. 75k states. |
| `MCICMPPingChecksum.cfg` (module `ICMPPingChecksum`) | `ChecksumsVerify` | From every packet with valid checksums, any sequence of rewrites leaves both checksums valid, including the all-zero echo reply whose incremental result is +0. |
| `MCFromHost.cfg` (module `FromHost`) | `TypeOK`, `FifoConserved` | With SMP, three packets (one invalid), ring capacity 2 and a one-packet downstream queue: every accepted packet is taken, killed by `cleanup()` or on the ring, in acceptance order, and the taken ones leave downstream or out of output 1 in order. 3034 states. |
| `MCFastTCPFlows.cfg` (module `FastTCPFlows`) | `TypeOK`, `WireFlowsWellFormed` (violation expected) | Two flows of size 3 and a two-slot transmit ring: see Findings. With `Limited = TRUE`, `LIMIT = 1` and `RingCap = 1` TLC finds the FIN-without-SYN trace instead. |

Three properties are stated but no configuration checks them any more:
`DecompositionExact` where a shift by the width yields 0 (ARM32),
`AbbreviationExpands` in `IPFilterParser` and `SeqTranslated` in
`TCPSeqDelta`. Each was checked in an earlier revision and held.

The `engine` run's packets are combinations of:
* first fragment, MF fragment and later fragment;
* TCP, UDP and ICMP;
* six ports, four of them in the set;
* three flag bytes.

The bytes past a packet's end take both values 0 and 255.

### Bounds

* **W = 5** is the word width in the comparison check. It gives fields of
  every length 1-5 at every position, with every mask. That is enough for every
  branch of `set_mask` and for decompositions of up to 5 rounds. Spec
  section 8 asks for exhaustive checks at 4-8 bits.
* **Engine packets.** Transport lengths {0, 2, 3, 4, 13, 14, 15, 16} put the
  end of the packet before, inside and after the port word (offset 64) and
  the flags word (offset 76). So `check_length` takes both outcomes for
  every mask byte, and `_safe_length` (80) separates the two loops.

* **Source.** Limit writes of 2 and -1 and two handler writes, so the
  source reaches a limit below its count, stops, and has its limit lifted
  or its count reset. The STOP case is not explored (`STOP = FALSE`).
* **Queues.** Capacity 2 and 4 packets: the ring fills, wraps around its
  three slots and overflows; a MixedQueue LIFO push evicts. The sleepiness
  trigger is 1 instead of 9, so the notifier falls asleep within the bound;
  the trigger only counts empty pulls and its value does not change which
  interleavings exist.
* **ARP.** Three addresses (a symmetry set), three packets, entry and packet
  capacities 2 (so both `slim` loops evict), timeout 2 jiffies with
  `CLICK_HZ` 10 and five jiffies of clock (so entries expire, and the
  keep-alive of `append_query` fires at its exact boundary).
  `click_jiffies_t` is 5 bits wide instead of 32 and the clock starts at 29,
  so it wraps during every behaviour and `now - _timeout_j` underflows. The
  widest span the code compares (`_polled_at_j = now - CLICK_HZ` against a
  later reading) is 15 jiffies, below 2^4, so the signed difference is still
  meaningful, as it is at 32 bits for spans below 2^31.

* **Reassembler.** Two datagrams in two buckets, four fragments per
  behaviour from a set with overlaps, duplicates, a short last fragment and
  first/middle/last pieces; a clock from 3 to 6 seconds with reap timeout 2
  and interval 1, so reaps fire and queues expire; a memory threshold low
  enough that `reap_overfull` runs.
* **StaTest.** Two MACs, four frames, window 3 (the code's window is
  larger; 3 already makes the sliding window drop values), ForgetAge 2
  periods in place of 90 seconds, counters capped at 3. The MC module uses
  RSSI values 0, 2, 10 and 12 so the variance lands below 10, between 10 and
  20, and above 20.
* **Heap.** Four elements and keys 1..3: heaps of depth 3, so sift-down
  meets both children and equal keys.
* **String.** Two Strings (a symmetry set: no action or property names
  one), memo ids 1..3, the literals `"a"` and empty,
  lengths up to 3, capacity unit 4 in place of 16 (so a memo fills within
  the bound and an append must copy), positions and lengths that exercise
  every clamping branch of `substring`. The multithreaded configurations use length 2
  and no allocation failure to stay within time.

* **ICMPPingRewriter.** Four addresses (two clients, the server, the NAT
  source), six Mapping objects (interchangeable, so `MapSymmetry` applies),
  identifiers of 2 bits in the passing run. The packets are derived from
  `Clients` and `Server`: each client's echo request, the server's reply to
  the NAT source for every identifier, a reply sent straight to each client,
  and a non-echo packet from each client, so every early return of
  `push` is taken. `_identifier` wraps in the passing run without a
  collision; the wrap run uses 1 bit, where a collision takes four packets.
* **Checksums.** Words of 3 bits and two address words, every address,
  identifier and non-zero other word, both echo types. Two folds absorb
  every carry only while 2·AddrWords ≤ 2^W. That holds in the code (four
  words, 16 bits) and in this model, but not at 2 bits with four words,
  where the model would report a carry the real code cannot lose.

* **FromHost.** Three packets, one invalid; ring capacity 2 (three slots,
  so the ring fills and wraps); a downstream queue of one packet, so the
  full notifier turns off and on. Each packet is transmitted once.
* **FastTCPFlows.** Two flows of size 3 (SYN, DATA, FIN), a transmit ring
  of two references, five pulls and one handler write per behaviour: enough
  for a flow to close and start over while its FIN still waits on the ring.

* **TCP deltas.** Five two-byte segments from ISN 28, with 5-bit sequence
  numbers, so the stream wraps. A window of 3 and resizes of -1, +1 and +2.
  The largest span compared is under 16 = 2^(SeqBits-1), as it is under 2^31
  in the code.

* **ToDevice.** Three packets, one of them short; a burst of 2, so a run
  can end on the burst limit with packets left; a driver that may refuse
  two packets, `queue_timeout` 1 and four jiffies, so a held packet is
  both retried in time and expired; one NETDEV_DOWN. The budget of refusals
  is what makes `PushedLeaves` meaningful: a driver that refuses forever
  sends nothing whatever the element does.

* **Parser.** Five words reach every grammar construct once: `not ( A )`,
  `A ? B : A`, `A B or B`, `( A and B )`. Nine packets with source and
  destination among three addresses tell `A`, `B`, neither and both apart.
  The primitive run needs five words for `tcp port 80 or 300` and
  `src host A or B`. Its 36 packets put each port below, at and above 80.
  Two addresses and port numbers 80 and 300 suffice there, because the
  code never compares two data words with each other.
* **Text.** Five characters hold a two-character operator between
  identifiers, a trailing space, and `&` or `=` at the last position, where
  the `pos < len - 1` look-ahead guard decides.

The parser and text runs check single configurations. After `configure`
runs, nothing is enabled, so they use `CHECK_DEADLOCK FALSE`.

### Fairness

`push` runs to completion on the calling thread; nothing in it waits. So
`IPFilterEngine` assumes weak fairness of its whole next-state relation.
The runs use `CHECK_DEADLOCK FALSE` because classifying one packet ends:
once `at = "done"` no action is enabled.

`QueuePipeline` assumes weak fairness of the producer (the source task and
the push it runs) and of the puller separately. A thread that is inside
`push` or `pull` finishes it, and a scheduled task is run by its thread.
Handler writes get no fairness: a user may never write one. The rate is
taken to allow a packet eventually (a positive RATE). The puller gets no fairness while it is
unscheduled and idle, because then no puller action is enabled. So
`AcceptedLeave` holds only because `wake()` reschedules the task. The queue and ARP runs stop when the
packets or the clock bound run out, so they also use `CHECK_DEADLOCK FALSE`.
`ARPTable`, `IPReassembler`, `ClickHeap`, `ClickString` and `ICMPPingRewriter` have no liveness
property and no fairness; their runs stop when the input bound is spent
(`CHECK_DEADLOCK FALSE`). `StaTest` assumes weak fairness of `RunTimer`:
`run_timer` reschedules itself every second, so the timer keeps firing. The
`MCStaTest.cfg` configuration checks deadlock: the timer is always enabled.

`ToDevice` assumes weak fairness of `RunTask`, `TxWakeQueue` and
`DeviceUp`. Click's scheduler runs every task on its run list. A driver
that stopped its queue drains its ring and wakes the queue. A device that
went down comes back. Nothing else is fair: pushes, carrier changes and the
clock may stop. So `PushedLeaves` holds only if the reschedule decision at
the end of `run_task` and the three notifiers never leave work with the
task off its run list and no wake to come. Click's `Task` is outside this
repository. The model takes `reschedule()` to do nothing while the task
sits on the quiescent thread: there after `strong_unschedule()`, or from
`initialize` when the device is missing. Only `strong_reschedule()` brings
it back. `set_device` is taken to record `netif_carrier_ok` in
`_carrier_ok`. The run stops when the packets and events run out
(`CHECK_DEADLOCK FALSE`).

`FromHost` assumes weak fairness of the three later steps of `fl_tx`
(a bottom half that started finishes), of `RunTask` and `RunTaskDone`
(Click runs every scheduled task, and a running task finishes), and of
`Drain` (the downstream puller keeps pulling). Transmits, device up/down
and `cleanup()` may stop. `FastTCPFlows` has no liveness property and no
fairness. Both runs stop when the packets or pulls run out
(`CHECK_DEADLOCK FALSE`).

## Findings

* **FromHost: lost wakeup on SMP (fromhost.cc:389).** `fl_tx` calls
  `_task.reschedule()` before it stores the packet and publishes `_tail`
  (lines 390-391). `run_task` reads `_tail` without the bottom half's lock.
  On another CPU the task can run in between, find the ring empty, and
  return without rescheduling. The packet then stays on the ring until the
  kernel transmits another one, which on an idle interface may be never.
  With `SMP = FALSE` the property holds.
* **RatedSource: the limit handler does not restart the task
  (ratedsource.cc:205).** When `_count` reaches `_limit`, `run_task`
  returns false without rescheduling (line 98). The `active` and `reset`
  handlers reschedule a task that is off its run list, but the `limit`
  handler only stores the new value. Raising the limit, or writing -1 to
  remove it, leaves the source stopped although it may push again.
  `SourceResumes` states the expectation. TLC finds it violated with the
  constants of `MCQueueNotifierMT.cfg` and `PROPERTY SourceResumes` in
  place of the invariants and properties there: limit 2 is written
  after three pushes, then -1.
* **FastTCPFlows: ports rewritten under queued packets
  (fasttcpflows.cc:83).** `pull` returns a new reference to a flow's shared
  skb (`skb_get`), and `change_ports` writes new ports into that same skb
  when the flow starts over. A FIN or DATA reference still on the driver's
  ring then goes out with the next connection's ports: the receiver sees a
  FIN before that connection's SYN.
* **FastTCPFlows: FIN without SYN at the limit (fasttcpflows.cc:126).**
  Past `_limit`, `get_packet` sends a FIN for every flow whose
  `flow_count` is not `FLOWSIZE`, including flows with count 0 that never
  sent their SYN.

* **ToDevice: held packet with a freed skb (todevice.cc:447).** With
  padding on (`NO_PAD` false), `queue_packet` copies a packet under 60
  bytes whose skb lacks tailroom and frees the original skb (line 423).
  If `hard_start_xmit` refuses the copy, line 447 holds the original
  Packet in `_q`. The next `run_task` hands its freed skb to
  `queue_packet` again, and `cleanup()` would kill it a second time. The
  copy is never freed. TLC needs one push and one `run_task`.
* **ToDevice: stall with the tx notifier (todevice.cc:363).** Built with
  `HAVE_CLICK_KERNEL_TX_NOTIFY`, `run_task` reschedules only if
  `queue_packet` returned 0. A failed `skb_copy_expand` returns -1 without
  stopping the driver's queue, so no tx wake follows. The upstream notifier
  is still on, because packets remain, so a push does not wake the task
  either. The packets behind the lost one stay upstream for good.
  `MCToDeviceStall.cfg` shows it. A driver that refuses a packet without
  stopping its queue (`BusyStops = FALSE`, the case the comment above
  `run_task` worries about) strands `_q` the same way.

* **Shift by 32 in `set_mask` (ipfilter.cc:244).** Take `0xFFFFFFFFU >> ffs_msb(missing_bits)`
  where the highest bit that the provided mask leaves out of the value is bit 0.
  Examples are `ip[0:1] & 2 > 1`, `tcp[13] & 6 > 3`, and `tcp[13] & 6 < 4`
  through the `<` rewrite. Then the shift count is 32, which is undefined in C++.
  * On x86 the count is masked, so the word is unchanged and `u` becomes the
    mask. `add_comparison_exprs` then emits no test, and the primitive is an
    empty AND that matches every packet.
  * A negated primitive negates the node before it instead.
  * TLC's counterexample is a 2-bit field with provided mask 2, `> 1`.
  * Where the shift yields 0, the decomposition is exact (checked at W = 5
    in an earlier revision).

* **MixedQueue LIFO push races pull (mixedqueue.cc:64).** The LIFO push
  writes `_head = h` from a `_head` it read earlier. `deq()` on the puller's
  thread can advance `_head` in between, and its write is then overwritten.
  The packet it pulled reappears, or a stored packet is lost. The element
  declares no thread-safety restriction. TLC finds `Conserved` violated with
  `HAVE_MULTITHREAD`.
* **ARPTable use after free when the clock ticks (arptable.cc:109).**
  `append_query` reads `click_jiffies()` at line 219. If the entry has expired
  at that reading, it sets `_live_at_j = now - _timeout_j` so that `slim()`
  does not delete it. `slim()` then reads the clock again at line 109. If one
  jiffy has passed, the entry is expired, and `slim()` frees it whenever the
  packet count is over capacity. Lines 249-254 then queue the packet on the
  freed entry. TLC needs 3 packets to one unresolved address.

* **IPReassembler: ChunkLink written over data (ipreassembler.cc:315).**
  A fragment without MF whose end is not a multiple of 8 and lies less than
  4 bytes before the next received chunk passes the length checks (the 8-byte
  rule at line 247 applies only to fragments with MF). The 4-byte ChunkLink
  is stored over the next chunk's data, and the datagram is emitted with link
  bytes in place of data.
* **IPReassembler: zero timestamp (ipreassembler.cc:199).** `make_queue`
  copies the timestamp only when `p_off == 0`. A queue started by a later
  fragment keeps timestamp 0 and is dropped by the next `reap()`, not after
  30 seconds of inactivity as its comment promises.
* **StaTest: `var_attack_high` not reset (staTest.cc:222).** When the long
  variance is between 10 and 20 the counter is left as is, so two high
  seconds separated by a medium one give `var_attack_high = 2`. The comment
  at line 151 says that value means two or more seconds in a row. The
  detector that reads the counter is commented out. No configuration here
  checks `HighMeansConsecutive`, the property that states that comment.
* **String: `c_str` terminator race (string.cc:460).** `c_str` returns in
  place when the byte after the String already reads `'\0'`. If another
  String sharing the memo has claimed that byte by CAS in `append_garbage`
  but not yet written it, the byte is uninitialised and may read as NUL;
  the append then overwrites it, and the returned C string loses its
  terminator.
* **String: `mutable_data` use after free (string.cc:417).** `mutable_data`
  reads `refcount > 1`, then derefs relying on the memo staying alive
  (comment at line 414). If the other sharer drops its reference in between,
  the deref frees the memo, and `assign` copies from freed memory.

* **ICMPPingRewriter: identifier collision after wrap
  (icmppingrewriter.cc:243).** `apply_pattern` takes `_identifier++` as
  the new flow's identifier, which is a 16-bit port of IPFlowID, and never
  checks that no live mapping already uses it. After the wrap, a second
  echo flow to the same destination replaces the first one's `_reply_map`
  entry, so the first flow's replies go to the second requester. When
  either pair is freed, `run_timer` erases the entry the other one still
  uses (line 222). A long-running ping that outlives 65535 other ping
  sessions to the same destination meets it.

* **TCPRewriter: one old delta (tcprewriter.hh:168).** A mapping remembers
  one trigger and two deltas, and each `update_seqno_delta` overwrites
  `_old_delta` with the previous `_delta`. After two resizes within one
  window, a late ACK or a retransmission from before the first trigger is
  shifted by the first resize, which should not apply to it. In TLC's trace,
  segments 2 and 3 each shrink by one byte. A late ACK for byte 28 then
  reaches the sender as 29, acknowledging a byte the receiver does not have.

* **IPFilter: `not` after a qualifier (ipfilter.cc:975).** The qualifier
  loop of `parse_factor` takes a `not` as a qualifier and flips the
  primitive's negation. So `tcp not A` is one primitive,
  not(tcp and host A), and it matches every UDP packet. In the documented
  grammar (spec 4.4 and the comment above `parse_expr`), `not` starts a
  factor, so the pattern is `tcp` juxtaposed with `not A`.
* **IPFilter: `proto 300` matches everything (ipfilter.cc:443).** `check`
  treats a protocol number of 256 or more as an internal pseudo-protocol,
  as it must for `IP_PROTO_TCP_OR_UDP` = 257. It skips the 0-255 range
  check, and `add_exprs_for_proto` emits no test, so the primitive is true
  of every packet. Meanwhile `proto > 300` is rejected. `ProtoMatchesNumber`
  states the expected meaning; no configuration here checks it.
* **IPFilter: `port < 80` needs both ports (ipfilter.cc:668).**
  * `set_mask` turns `< 80` into not `> 79`.
  * `add_exprs` negates the whole src-or-dst subtree.
  * So the primitive means both ports below 80, while `port > 80` means one
    port above 80.
  * The same happens with `>=`, `<=` and `!=`.
* **IPFilter: trailing whitespace (ipfilter.cc:701).** After skipping
  trailing whitespace, `separate_text` reads `s[len]` (past the String's
  data) and pushes an empty word. The parser reports it as an empty term, so
  a quoted pattern such as `"allow tcp "` fails to configure.
  `NoEmptyWord` in `IPFilterText` states the expectation; no configuration
  here checks it.

## Plan for later sittings

* The IPFilter parser leaves out `[POS:LEN]`, `& MASK`, `mask` and net
  prefixes, the header-field keywords, and the port, TCP-option and ICMP
  name databases. Add them as more words and `Lookup` entries.
* IPAddrPairRewriter and TCPRewriter's mapping tables are built and
  collected by IPRw, which is not in this repository; model them from
  Click's IPRw if that becomes worth the spec-modelled share.
* Model `click_qsort` from `algorithm.hh` as a recursive operator checked
  against a reference sort, and the rest of String (`append_fill`,
  `hashcode`, comparison) as operators.
* String's `hard_lower` and `hard_upper` write into the out-of-memory
  String's constant data when allocation fails (the loop runs to the
  original length). Model them with `ClickString`'s allocation failures.
* Model FastUDPFlows like FastTCPFlows, and `FromHost`'s `fl_wakeup` and
  its `set_device` path.
* ARPTable's unlocked `clear()` (line 68) is atomic in the model because
  Click runs write handlers exclusive of the router threads; a model where
  a handler interleaves with `append_query` would need the handler flags,
  which live outside this repository.

## Not modelled (yet)

Every component of `src/` is listed in `PROJECT.json` with its status and
the reason. Code the models rely on that is not in `src/` is modelled from
Click's documented behaviour: the Classifier base class, SimpleQueue and
ActiveNotifier, `List::erase`, ICMPPingRewriter's Mapping accessors (`used`,
`mark_used`, `clear_used`, taken to touch only the mapping's own flag, so
no liveness property about garbage collection is claimed), `click_in_cksum`,
Click's `Task` scheduling and `AnyDevice::set_device` (see Fairness),
and the inline members of `string.hh` (`ref`,
`deref`, the constructors and `operator=`), which are assumed to count
references as Click's do. String's DMALLOC bookkeeping is not modelled.

RandomSource (`randomsource.cc`) is not modelled: its only state is the
packet it builds, and building it is byte formatting with no control a
property could tell apart. Reading it, `make_packet` fills the packet four
bytes at a time with `for (i = 0; i < _length; i += sizeof(int))`, which
writes up to three bytes past `_length` when `_length` is not a multiple of
4 (randomsource.cc:66-67), though `Packet::make` is asked for no tailroom;
whether the write stays inside the buffer depends on `Packet::make`, which
is not in this repository. RatedSource's rate, data and length handlers change
only the rate and the packet's bytes, so they are left out of `RatedSource`.
