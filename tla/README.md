# WindInput in TLA+

WindInput is an input method for Chinese and other scripts: a Rust service turns key strokes into
candidates, thin clients in the hosts (Windows TSF, Linux, macOS) pass keys and show the result, and
a store keeps what the user has typed, learned and edited. This directory holds TLA+ modules about
that program, the TLC configurations that check them, and proofs that TLAPS checks.

The work starts with the user data, because there the program makes its hardest promises: a record
that was acknowledged survives a process crash, nothing is applied twice, and a file the user edits by
hand is never overwritten unread. These promises hang on the order of steps of several threads, on
crashes between any two of them and on the state of several files, and no unit test reaches most of
those orders.

The second subject is the connection between the service and the DLLs in the hosts: who is told that the
service is there, who gets configuration and committed text, whom the one input buffer serves, and how
a host finds its way back after a restart. There the order of messages on several pipes decides, and a
fault shows only as an input method that has stopped or types into the wrong place.

Paths below are relative to `src/wind_input/crates/` unless they start with `docs/` or `wind_tsf/` (under `src/`) or
with `apps/` (under `src/wind_input/`).

## 1. Inventory

### Components

| Component | State it keeps | Operations | Hard behaviour |
|---|---|---|---|
| Engine, `wind-userdata` `engine.rs` `snapshot.rs` `state.rs` `device.rs` | journal, one segment per target with its watermark, state file, in memory the view (segments + delta) | `open`, `load_or_renew`, `apply_batch`, `fold_with`, `compact`, `clear`, queries | folds beside writes, crash at every step, damaged files, device renewal |
| Journal file, `journal.rs` `record.rs` | the `.wjl` file, next number, dirty flag, a second handle for fsync | `open`, `append`, `take_sync_handle`, `mark_dirty`, `prune_before`, `bump_next_seq` | torn frames, fsync outside the lock while a prune replaces the file |
| Overlay, `engine.rs` `delta.rs` `layer.rs` | frozen part and tail of the delta, segment entries | `apply_ops`, `overlay_entries`, `get`, `exact`, `scan`, prefix and abbreviation queries | the same meaning by four different ways of reading |
| Text targets, `engine.rs` `text/` | a text file per target, its backup, fingerprint in the state file, held targets, backoff, first pending time | `bind_text`, `fold_text`, `sync_text`, `rewrite_text`, `hold_text`, `release_text`, `clear` | an editor saves at any time; text, segment and state file cannot be written at once |
| Edit sessions, `wind-store` `external_edit.rs` | sessions with generation and lease, held targets | `begin_edit`, `end_edit`, `expire_edit_sessions`, `check_not_editing` | ends, renewals and expiries overlap |
| Store, `wind-store` (rest) | small tables, bindings, drafts, statistics | words, learned entries, drafts, phrases, reload by file name | read, then write |
| Migrations, `wind-store` `migrate_p1..p4` | versions and old databases | one conversion per version | restart after a crash |
| Bridge, `wind-bridge` `push.rs` `server.rs` `deferred.rs` | table of push clients with their queues, ready flag, connected hook | `register_client`, `claim_connected_hook`, `mark_ready`, `push_per_client`, `push_commit_to_active` | slow or vanished clients, reconnection beside the end of the old connection |
| Coordinator, `wind-coordinator` | active client, toolbar flags, input buffer, modes, candidate window | `handle_focus_gained`, `handle_focus_lost`, `handle_ime_activated`, keys | one thread per connection, one state for all hosts |
| Host clients, `wind_tsf` (also `wind_linux`, `wind_macos`) | pipe and its breaker, flags of what was reported, composition, retries | TSF callbacks, push reader, `_DoFullStateSync`, retries by timer | callbacks in orders that hosts choose, a service that restarts |
| Reader pool, `wind-dict` `reader_pool.rs` | one weak entry per cache file with its stamp, a generation per path | `get_or_open`, `replacing` and the rename it encloses | files replaced under those who map them, within one tick of the clock |
| Engines, other dictionaries, candidates | memory-mapped dictionaries and caches | look-up, building caches | several processes build one cache |
| Configuration, phrases, command bar, auxiliary codes, punctuation, transformation | parsed configuration | merging, parsing, evaluation | pure functions |
| RPC, settings data, import and export | subscriptions, files | JSON-RPC, merge strategies | event delivery |
| User interface, mobile facade, tools | windows | drawing | platform code |

`PROJECT.json` lists all of them with their files, and says of each what is modelled.

### How they interact

The coordinator calls the store on its key thread; the store calls `apply_batch`, which holds the
write lock of the engine and its journal lock for the whole batch. A ticker thread
(`spawn_ticker`, engine.rs:1760) fsyncs the journal every 5 s and folds idle text targets; a
maintenance thread (`spawn_maintain_with`) folds and compacts when a target or the journal grows; the
small-file thread of the store (`spawn_small_file_flusher`, store.rs:562) ends edit sessions whose lease
has run out. Folds exclude each other by `fold_lock`; they take the write lock only to fix their
starting point and to publish. Readers take an `Arc` of the view and no lock. Settings and RPC threads
begin and end edit sessions, and the user's editor writes the text files with no lock at all. Files are
what is shared with the next process: journal, sealed journals, segments, state file, text files.

A DLL in a host has two pipes to the service. On the request pipe it sends keys, focus reports and
activations from its TSF thread; one thread of the service handles each connection, all of them on one
coordinator. On the push pipe a reader thread of the DLL receives SERVICE_READY, configuration and
committed text; the service keeps a bounded queue and a writer thread for each client. At the start,
`main.rs` gives the handler to the request server, marks the push server ready and sets the hook that
configures each new client, in this order, while DLLs connect at any time. SERVICE_READY makes the TSF
thread send everything again, with retries when the pipe is busy.

Engines are built on several threads (at the start, for a new schema, after a reload of dictionaries) and open
the same cache files through one pool; whoever builds a dictionary, imports a scheme or restores a backup
replaces such a file under them, some with a lock for the file and some without.

### What makes each modelled part correct

* **Engine**: no acknowledged record is missing, none shows twice, now or after a crash at any step;
  new numbers lie above everything that decides what a replay skips.
* **Journal file**: a process crash loses nothing acknowledged, a power loss nothing that a successful
  tick has covered, and everything reaches stable storage at last.
* **Overlay**: every way of reading gives what the sequence of operations means.
* **Text targets**: no operation is lost or counted twice, removed rows stay away, no save of the user is
  overwritten unread, a text taken as unchanged is what the segment shows, everything pending is
  written at last.
* **Edit sessions**: the write-back is held exactly while a session is there, an older end does not close a
  newer session, changes that returned Ok are not overwritten by the editor, an abandoned session ends.
* **Push channel**: a client is listed once and while a thread serves it; whoever has received everything is
  synchronised and configured; text is inserted once; a DLL comes to rest current whatever fails.
* **Focus**: whoever types is served, the toolbar follows, one buffer never holds the keys of two documents, a
  focus that flickers takes no input away.
* **Reader pool**: nobody is handed a mapping of a file that was replaced before he asked for it.
* **Recovery of a host**: no flag that says "tell the service" is cleared without telling it, and telling it
  again takes no choice of the user back.

The hazards behind these sentences are listed at their lines in `PROJECT.json`, each with the property
that covers it or the reason why none does.

## 2. Plan

Modules in the order they are written:

1. `UserStore` (what the engine promises), `UserData` (engine), `UserDataInvariant` (its inductive
   invariant) and `UserDataProofs`. Done, with the proof of the refinement.
2. `JournalFile`: below the records of `UserData`, with `JournalFileProofs`. Done.
3. `TextTarget`: targets whose truth is a text file, with `TextTargetProofs`.
   Done for tables.
4. `EditSessions`: sessions, leases and holds, with `EditSessionsProofs`. Done.
5. `Overlay`: the algorithms of reading and folding, with `ReadProofs`. Done for the main queries.
6. `PushChannel`: push clients and the start of the service, with `PushChannelProofs`. Done for Windows.
7. `HostFocus`: focus reports of several hosts and the one state of the service, with `HostFocusProofs`. Done for
   Windows.
8. `ReadySync`: a host after a restart of the service, with `ReadySyncProofs`. Done for Windows.
9. `ReaderPool`: one cache file, those who map it and those who replace it, its proofs in the last part of
   `ReadProofs`. Done for one path.
10. Left: `WordList` (`fold_text_locked`, `rewrite_text` and line patches, the other kind of text target);
   `TextStore`, an abstract specification that `TextTarget` refines in the runs without a violation;
   deferred answers of the request pipe; dictionary caches (`cache_fp.rs`, `cached.rs`, `build_guard.rs`,
   several processes on one cache); migrations and their restart; statistics flushed by timers; RPC events.

Composition: `UserData` takes the journal as a set of complete records, which `JournalFile` justifies
(what a scan reads is what was acknowledged); it takes a segment as the set of records folded into it,
which `Overlay` justifies (a segment means its operations, each once and in order); `TextTarget` takes
`apply_batch` as one step, which `UserData` justifies; `EditSessions` takes folds and syncs as one step
that succeeds or fails, whose inside is in `TextTarget`. `ReadySync` takes SERVICE_READY as a message that comes
once for a life of the service, which `PushChannel` justifies; what `ReadySync` calls `known` is the activation
whose effects on the state of the service are in `HostFocus`, which in turn takes the connection as one
that never fails.

Theorems, in order: type correctness, the safety invariants and the refinement of the engine, the invariants of
`EditSessions`, of `PushChannel`, of `TextTarget`, of `ReadySync`, of `ReaderPool`, of `JournalFile` and of
`HostFocus`, and of `Overlay` that a segment, the lookups, the streaming merge and the limited prefix query give
what the operations mean (all done). Left is, once it is written, the refinement of `TextStore` by `TextTarget`.

## 3. Modules and code

### UserData, UserStore

A record is the pair of its number and target. On disk: `log` (this device's journal), `sealed` (the
`.wjl.sealed` files), `seg` (per target: absent, fine or not to be opened, watermark, the records folded
in), `disk` (the state file). In memory: `next`, `mseg` and `delta` (the view),
`state`, `fold` (who holds `fold_lock` and how far it is), `compaction`, `pruned`. The history variable `acked`
records what callers were told is saved; damage to the disk takes from it exactly the records of which
no readable copy is left.

| Action | Code |
|---|---|
| `Open`, `Renew` | `UserData::open`, `load_or_renew`; the replay watermark is `Watermark`, numbering `Floors`; with `sealed_skipped` some sealed journals are not read |
| `ApplyBatch`, `ApplyFails`, `CrashInApply` | `apply_batch`: one append per record, one publication |
| `FoldBegin`, `FoldBuild`, `FoldPublish`, `FoldSave` and their failures | the stretches of `fold_with` between its locks |
| `CompactBegin`, `CompactPrune`, `CompactPruneFails` | `compact`; its folds are the fold actions with `by = "compact"` |
| `Crash`, `PowerLoss`, `SegmentRots`, `StateRots`, `JournalDeleted` | the environment |

Each variable is written under one lock in the code, and an action is what happens between two points
at which that lock, or the disk, can be seen by others. `UserStore` knows only which records a user
sees (`shown`) and which a failed batch has left behind (`limbo`): a batch, an end of the process and
nothing else changes what is seen. `ImplementsUserStore` maps the engine to it: every step is a step of
`UserStore`, leaves its variables alone, or is one of the three actions of `Damage` (power loss, a deleted
journal, a segment that becomes unreadable), about which the store promises nothing.

### JournalFile

`file` is a sequence of frames, whole or torn; `durable` how many are on stable storage; `attached` whether the
open handle is still the file under the journal's name; `handle` the clone that is being fsynced. `Open`
truncates behind the last whole frame, `AppendShort` leaves a torn one, `SyncTake`/`SyncDone`/`SyncFails`
are `sync_journal`, `Prune` and `PruneReopenFails` are `prune_before`. `PowerLoss` keeps a prefix of what
was not fsynced, perhaps with a piece of the next frame. The history variable `stray` collects what was
acknowledged behind a torn frame or after a prune that could not reopen its file, `inherited` what a
`Journal` found unsaved when it was opened: the two exceptions that the properties name.

### TextTarget

A content is the last edit of the user in it and how often each operation has been applied to it. Jobs
under `fold_lock` go through `recheck` (`commit_text` looks at the file again and keeps the previous version),
`rename`, `build`, `publish` and `save` (`install_text_segment`), and serve four purposes: `patch`
(`fold_table_locked`), `replace` (`replace_text_entries`, `clear`), `adopt` (`bind_text` of a target that had no text
yet) and `sync` (`sync_text`, which starts at `build`). The session actions are `begin_edit` with
`prepare_learned_edit`, and `end_edit`. The user saves through an editor that holds what it once read,
deletes the file, or puts the backup back.

### EditSessions

`sess` maps a file to the generation of its session. `Begin` is one step because `begin_edit` holds the
session lock throughout; `EndRead`, `EndSync`, `EndClose` are `end_edit`; `ExpireCopy`, `ExpireDecide`,
`ExpireRead`, `ExpireSync`, `ExpireClose`, `ExpireRecover` are `expire_edit_sessions`. `active` and `saved` say
whether the last begin and the last save lie within the lease. `WriteCheck` and `Write` are a change of a
small table from the user interface (`put_phrase_rows`; the other tables have the same shape). `wanted` is
history: begun and since then neither ended nor due to expire.

### Overlay

Operators of the code's names on a state that writes, folds and reopens: `ApplyOps`, `OverlayEntries`, the two-level
delta with `Freeze` and `Find`, `Get`, `Exact`, `Scan` with `MergeGroup`, `PrefixQuery`. `Meaning` is the
reference: it says what the operations on a key mean without going through them one by one. `InOrder` sorts by
rank, `Applied` and `Total` are functions of the number of operations gone through, so theorems can speak of them.
An entry is a record, no entry or one a set of at most one; a segment is a set of entries, and the order in which it
keeps the words of a code is `PlaceInCode`. `Scan` has the shape of the code: `Stream` goes through the codes of the
segment, `Merged` is `merge_code_group` with its loop `Merge`, and `Flushed` what `flush_delta_before` yields in front
of each code and at the end.

### PushChannel

`table` is `PushServer.clients` (an entry has its connection, its token and the two flags `hooked` and
`ready_sent`), `queue` the channel of each connection, `thread` where the thread of the connection is, `hookRun`
who holds the lock of `connected_hook` and what is still to be pushed under it. At the other end `link`,
`wire`, `title` and `synced` are the push reader of each DLL: what it reads from, what was written and not
read, the switch it has been given, and how far its synchronisation is.

| Action | Code |
|---|---|
| `SetReady`, `MarkReady`, `SetHook` | the start in `apps/service/src/main.rs`; `mark_ready`, `set_connected_hook` with `claim_all_unhooked` |
| `Register`, `ClaimHook`, `SkipHook`, `Write`, `EndLoop`, `CleanUp` | one connection: `register_client`, `claim_connected_hook`, `push_writer_loop` and its end |
| `HookComputes`, `HookPushes` | `on_push_client_connected`: the value is computed before `push_to_token` takes the lock of the table |
| `ReloadTable`, `ReloadPush`, `PushCommit` | a reload of the compat table and `push_per_client`; `push_commit_to_active` |
| `Connect`, `Read`, `Sync`, `ReadError`, `Exit` | the reader of the DLL (`_AsyncReaderLoop`) and the synchronisation it posts |
| `Crash` | an end of the service |

`Offer` is `offer` with `drop_stalled`: a client whose queue is full is taken out of the table, its thread then
finds the channel closed, and the DLL reconnects. A request before `set_ready` gets a default answer, so a
synchronisation then is `swallowed`. The title switch stands for all configuration frames.

### HostFocus

`dll` holds the fields of each DLL that decide what it reports (`_lastActiveDocMgr`, `_lastFocusedDocMgr`,
the flag that a loss was sent, the flag that an edit context was reported, the composition), `pipe` what each
connection has sent and the service has not finished, `svc` the state of the coordinator (`active_token`,
`ime_active`, `has_edit_context`, `focus_no_edit_ctx`, the input buffer as the set of documents typed into, the
process last focused, and `render`, the process that the window of the service was last meant for, noted with each key,
gained focus and activation). `Banded` are the hosts of the whitelist for which the service draws itself, such as the
search box; whether one of them is set up at a given moment is left open. The history variable `orphans` in `svc` is the part
of the input whose composition was reported ended by a report that the service did not follow (`Disregards`), and that
nobody has typed into again: a terminated composition while host rendering is active, and a deactivation that comes from a
connection that is not the active one any more. A document is editable, a page without an editable context, or a transient
container.

| Action | Code |
|---|---|
| `SetFocus`, `LoseFocus`, `KillThreadFocus`, `Terminate`, `Activate`, `Deactivate`, `Key` | `TextService.cpp`: `OnSetFocus` in both directions, `OnKillThreadFocus`, `OnCompositionTerminated`, `ActivateEx`, `Deactivate`; `SendKeyEvent` |
| `AnswerGained`, `GainedState`, `GainedToken` | FOCUS_GAINED: answered first, then handled |
| `DropStale`, `PassStale`, `LostState`, `DeactivatedState` | `is_stale_focus_event`, then `handle_focus_lost` or `handle_ime_deactivated` |
| `DropBackground`, `ActivatedToken`, `ActivatedState` | `is_background_client`, then `handle_ime_activated` |
| `HandleKey`, `HandleTerminated` | a key that extends or commits the input; COMPOSITION_TERMINATED, ignored while `host_render_active` |
| `Switch` | the user brings another process to the foreground |

The token check of a handler and what follows it are not under one lock, so a handler has two or three steps.
Keys wait until what other hosts still owe are only losses and deactivations; people are slower than the
pipes. The properties speak of editable documents: a transient document is typed into but never reported, so
in the first moment after a change of the foreground a late report may clear what is typed there.

### ReadySync

The TSF thread of one DLL; a callback is one step. `c` holds the fields of `IPCClient` (connection, breaker,
`_needsStateSync`, `_stateEstablished`, whether anything was written), the two retries with their counts, and
what the service has of the host (`known`, `mode`). A call of the thread maps `c` to the set of its outcomes, so
`Connect`, `Send`, `FullSync`, `Decide`, `RunReadySync` and `RunFocusRecovery` follow the functions of these names
in `IPCClient.cpp`, `TextService.cpp` and `ServiceReadyRetryPolicy.h`. `ServiceReady`, `ReadyTimer`, `FocusTimer`,
`SetFocus`, `LoseFocus`, `KillThreadFocus`, `Key`, `Click`, `Caret` are the callbacks; `Elapse` is the breaker's
interval. `CaretSent` is the caret a key or a focus change sends along, which may connect by itself. A click ends the
composition. A write to a live pipe succeeds, and the mode is changed by keys and clicks only.

### ReaderPool

`disk` is one cache file: which content it has and how it looks, that is size and time as one value; `pool` the
entry of its path, `held` the threads that hold the reader of this entry, which its weak pointer finds alive, `gen` its generation in `REPLACE_GEN`. `Count` and `Stat` are the two halves of `file_stamp`,
`Reuse`, `Map` and `Enter` those of `get_or_open` under the lock of the pool, `Release` is the last holder letting a
reader go. `Announce` and `Finish` are the two counts of `replacing` around `Rename`, which may leave the look of
the file as it was, or `RenameFails`; writers have no common lock, as the comment of `replacing` demands.
`ReplaceOutside` changes the look, because people and other processes are slower than the clock. The history
variable `done` is the newest content whose replacement is over, `calm` says that no open has begun between an
announcement and its rename. Imports and restored backups remove the old file before they rename; an
open in between fails, and is left out.

## 4. Runs

Runs that pass:

| Run | Shows |
|---|---|
| `MCUserData_all` | batches of up to two over two targets beside folds, compactions, crashes at every step, failing appends, a renewed device, power loss, unreadable segments, state file or sealed journal, a deleted `journal/`: type, `NoLoss`, `NoDoubleApply`, `Recoverable`, `FreshNumbers`, `WatermarkNeverBack`, and that `UserData` implements `UserStore` |
| `MCJournalFile_file` | appends, torn appends, prunes, failing reopens and fsyncs, crashes and power losses in any order: only what was acknowledged behind a tear is lost, a tick that succeeded has saved, numbering goes on, everything else becomes durable |
| `MCTextTarget_edits` | learning beside folds, syncs, sessions, bad files, restored backups and restarts: all six safety properties |
| `MCTextTarget_faults` | a crash or an I/O error between any two steps, a damaged segment or state file: nothing is lost |
| `MCTextTarget_live` | with an editor opened outside any session what is pending gets into the text at last, counted once, over no save of the user |
| `MCEditSessions_sound` | overlapping begins, ends, expiries and failing syncs: holds and sessions agree, no session still wanted is closed, no change is lost, an abandoned session ends |
| `MCOverlay_all` | all ways of reading agree with the meaning of the operations, and a limited prefix query finds the best words |
| `MCPushChannel_live` | a DLL connects before, during and after the start, loses its pipe, meets a full queue, a reload and a crash of the service in any order: entries and threads agree, whoever has received everything is synchronised and configured, text is inserted once, and it comes to rest connected and current |
| `MCHostFocus_all` | two hosts and a process without the DLL, four kinds of documents, late reports and activations, hosts the service draws for: whoever types is served, the toolbar follows, no input taken away, no mixing but with what is left of compositions whose end the service did not follow |
| `MCReadySync_all` | two ends of the service in every phase of a host's recovery, a busy pipe, keys, focus changes, late SERVICE_READY: nothing is forgotten, no retry takes a mode back, the host is known in the end |
| `MCReaderPool_all` | two threads open a file that two writers and others replace: nobody is handed what was replaced before he asked |

One run finds a disagreement between the code and what a document promises (the finding in `PROJECT.json`
quotes both): `MCTextTarget_begin`, in which a word learned while `begin_edit` creates the file is dropped.

The passing runs leave out some entries of the constant `Faults`, or their property names an exception. Each
marks a place where the code does not keep the property, or keeps it only for a reason outside the model;
a configuration with that entry shows it:

* `UserData`, `seal_fails`: the records of a journal that could not be renamed are not read again (`Recoverable`).
* `UserData`, `sealed_skipped`: a sealed journal that cannot be read while the engine opens is passed over with a warning
  (engine.rs:264). Its records are missing until an open that can read it (`NoLoss`, `ImplementsUserStore`); the numbering
  does not know them, so new records may get their numbers (`FreshNumbers`), and a fold over those leaves the skipped ones
  below its watermark for good (`Recoverable`), as does a `compact` that removes the file.
* `UserData`, `append_error`: what a batch wrote before its failing append shows after the next open, although
  the caller was told that nothing is saved; `UserStore` calls it `limbo` and allows it.
* `JournalFile`: a journal counts as clean when it is opened, so a tick saves nothing of what a crashed
  process left unsaved in it; `SyncedSurvives` leaves out these records (`inherited`).
* `JournalFile`, `stray`: a torn append stays in the file, and a scan stops at it, so what is acknowledged behind
  it cannot be read at the next open (journal.rs:112); the same holds for what is appended after a prune
  that could not open its new file. `OnlyStrayLost` says that nothing else is lost.
* `TextTarget`, `late_save`: a save between the comparison and the rename of `commit_text` is overwritten
  (`UserEditsKept`), and what it has deleted comes back (`NotResurrected`).
* `TextTarget`, `crash_in_job` and `io_error`: counts are added twice when the process dies, or a step fails, between
  the rename of the text and the segment (`NoDoubleApply`), a row deleted then comes back (`NotResurrected`),
  and with `restore` a backup put back then is taken as unchanged (`SegmentShowsText`).
* `TextTarget`, `segment_rot` and `state_rot`: the journal is replayed over a text that already holds its operations,
  and a deleted row comes back (`NotResurrected`); with `segment_rot` counts are added twice as well.
* `EditSessions`, `begin_at_write`: a change that looked for a session before it began is overwritten by
  its editor (`ChangesSurvive`).
* `EditSessions`, `rebegin_at_expiry`: an expiry decides by a copy of the sessions, and a session renewed between
  that and the close is closed with its hold (external_edit.rs:484, 495; `SessionStaysOpen`).
* `Overlay`: a prefix query with a limit reads only the best part of the segment; a word below that part whose
  weight a pending `setweight` raises is missing from the answer (layer.rs:134). Weights are `i32` and may be
  negative (codec.rs:139): a pending `incr` of a word below that part with a negative weight makes an entry of its own,
  of weight 0, and shows it before the words that were read, although layer.rs:3 says that Incr does not affect the
  candidates. `PrefixFindsBest` supposes that nothing of the two kinds is pending. The second needs three words of
  weight -2 in a segment, a limit of 1 and an `incr` of one of them, one operation more than the run has; the
  attempt to prove the property without that supposition showed where to look.
* `PushChannel`, `reload_in_hook`: the hook computes a client's value before it takes the lock of the table, so a
  reload in between is pushed first and the old value after it; it stays until the next push (push_config.rs:353;
  `QuietIsCurrent`).
* `PushChannel`, `late_cleanup`: the end of an old connection takes the entry of the new one with the same token out
  of the table (push.rs:718), and the DLL must connect once more. The properties hold with it too; the runs
  leave it out because a DLL waits a second before it reconnects.
* `HostFocus`, `overlap`: two connections are handled at the same moment; a check of the token that another
  handler overtakes lets a late report switch off the host that has the focus (`FocusedIsServed`).
* `HostFocus`, `keeps_composition`: a host lets the focus go with its composition open and reports nothing; the
  keys of the next document join what is in the buffer (`NoMixing`).
* `HostFocus`, `orphans`: `NoMixing` and `InputKept` leave out what a composition leaves behind whose end the service
  does not follow; with it, both are false. While a host of the whitelist is drawn for, COMPOSITION_TERMINATED is
  ignored (message_handler.rs:3447), for the search box ends every composition at once. So: type into an
  editable document of such a host; the host ends the composition, which is ignored; the focus moves to a transient document
  of the host, for which no loss is sent; the next key joins the old buffer. The comment there says that ordinary hosts
  are not affected; the report of one that is handled after a host of the whitelist has gained the focus is
  ignored as well. Without any host of the whitelist: a DLL is deactivated while it composes, and
  activated again by the same host; the new activation is handled first, the deactivation is stale and dropped
  (message_handler.rs:3284), and the next key joins the old buffer.
* `HostFocus`, `activated_outside`: a DLL is activated in a process that is not in the foreground while nobody is
  served; the toolbar comes up over a process without the input method (`ToolbarOnlyServed`).
* `HostFocus`, `overlap` and `activated_outside` together (each alone does no harm to `NoMixing`): an
  activation in the background is handled between the halves of a gained focus, so the active client is the
  foreground host and the process last focused is another; the next activation of that one passes
  `is_background_client`, and the reports of the host that is typed into are stale (one switch, four activations,
  two focus changes, two keys).
* `HostFocus`, `fast_switch`: the user leaves a host before its reports are handled; the last one handled may be
  that of a process already left (`ToolbarOnlyServed`).
* `ReadySync`, `key_connects`: a key connects by itself while the sync for SERVICE_READY is being retried and
  starts a composition; the retry stops because the state counts as established, the next key clears the
  flag, and IME_ACTIVATED never reaches the new service (`NothingForgotten`), although KeyEventSink.cpp:2467 expects
  WM_SERVICE_READY to do it later.
* `ReadySync`, `click`: a click on the language bar does not mark the state as established; when a caret update had
  connected before, or the click itself connects again over a stale connection, a retry resets the mode that was
  just chosen (`ModeKept`). Without the fault a click the service handles has found an established connection.
* `ReaderPool`: the comment of `replacing` (reader_pool.rs:124) says that a stamp taken inside a replacement has a middle
  generation and is reused on neither side of the rename. Two opens in the same replacement do share it: one before
  the rename enters the old file, one after it is handed that. `NewestAfterRename` holds as long as `calm` does; the
  second count ends it, so `NoStaleReader` holds without condition.

### Bounds and why they are enough

* `UserData`: two targets show that folding one leaves the other alone; two records allow one folded or pending
  under a fold and one written during it; batches of two show a batch cut in its middle; a sealed
  journal beside the live one shows what is removed and what is kept. Targets are symmetric in `MCUserData`.
  The theorems cover every number of records and targets.
* `JournalFile`: three records and one torn frame: before, in and behind the fsync, the cut and the tear.
* `TextTarget`: in `_edits` two operations and one edit: one operation folded and one pending, an edit before,
  between or after them. In `_faults` one operation and one edit, the subject being the order of the
  engine's own writes around them; in `_live` one operation and two saves of an editor with an old copy.
* `EditSessions`: one file of each kind, two clients, three begins: two ends and an expiry may overlap with
  a renewal.
* `Overlay`: two codes, one a prefix of the other, and two texts, that is four words; three operations in
  batches of one or two; a tail of one, so that the second operation freezes the delta; counts that stop
  at 3 and come in steps of 2; weights of 1 and -1; limit 1, which is less than the words there are, and none. The
  four invariants are proved for every choice of these.
* `PushChannel`: three connections let a DLL reconnect beside its old connection; queues of two and a pipe of one frame
  fill at once; a reload, a commit, two errors and a crash meet in one behaviour. One DLL is enough for TLC because
  the three safety properties are proved for every set of DLLs.
* `HostFocus`: two hosts and one process without the DLL; four changes of the foreground (there, back and there
  again), three focus callbacks, two keys in different documents, two activations (both hosts, or one host
  twice). Hosts and editable documents are symmetric. Both hosts are `Banded`: as the window of one need not be set up,
  this includes the behaviours of every smaller whitelist. Three switches with three activations hold as well.
* `ReadySync`: three failures until the breaker opens, as in the code, and three retries instead of ten: one that
  fails, one that is deferred and the last; three busy pipes (one for a sync that fails, two for the key after it), two
  ends of the service (one while the recovery from the other runs), two focus callbacks, three keys or clicks.
* `ReaderPool`: two threads, one that enters and one that would reuse; two writers, so that replacements overlap;
  three contents, so that the newest, the one before and an older one are told apart; no announcement once the
  generation is 3. The theorems cover every number of each.

Where a configuration says `CHECK_DEADLOCK FALSE`, the bounds on numbers and edits end every behaviour somewhere.

### Fairness

* `JournalFile!FairSpec`: the ticker loops for as long as the engine lives, so a tick that can start does start
  (weak fairness of `SyncTake`); an fsync may fail any number of times, but not forever (strong fairness of
  `SyncDone`), without which nothing can be promised.
* `TextTarget!FairSpec`: the ticker comes round, time passes and the holder of `fold_lock` goes on (weak); the
  mutex lets a waiting thread in at last, users end their sessions, and neither saves nor failures meet
  every single fold (strong, as those actions are disabled again and again by other holders of the lock).
  The idle fold and `compact` have no fairness: only the longest wait (`text_max_pending`) is relied on.
* `EditSessions!FairSpec`: only the loop of the small-file thread (weak). Nothing is asked of clients.
* `PushChannel!FairSpec`: the start of the service, each of its threads and each reader of a DLL go on (weak). Nothing
  is asked of reloads, commits, errors and crashes.
* `ReadySync!FairSpec`: the service is started again, messages and timers are handled, compositions end and the
  interval of the breaker passes (weak). Nothing is asked of the user or of the focus.

## 5. Proofs

Everything here holds for any sets of targets, files, clients and DLLs and for any bounds; the assumptions
are those of the modules on their constants (bounds are natural numbers, faults are known ones, a
token that stands for nobody is no token). Where a fault is excepted by name in a table below, the property is
false with it, and section 4 says how. The theorems under `Orderly` leave out more than TLC finds violations
for; the paragraph on text targets says which.

`UserDataProofs`:

| Theorem | Of | Faults |
|---|---|---|
| `TypeCorrect` | `TypeOK` | all |
| `NumbersStayFresh` | `FreshNumbers` | all but `sealed_skipped` |
| `NothingAppliedTwice` | `NoDoubleApply` | all |
| `SegmentsOnlyGrow` | `WatermarkNeverBack` | all |
| `NothingLost` | `NoLoss` | all but `seal_fails` and `sealed_skipped` |
| `AlwaysRecoverable` | `Recoverable` | all but `seal_fails` and `sealed_skipped` |
| `EngineImplementsStore` | `ImplementsUserStore` | all but `seal_fails` and `sealed_skipped` |

`JournalFileProofs`:

| Theorem | Of | Faults |
|---|---|---|
| `TypeCorrect` | `TypeOK` | all |
| `OnlyStraysAreLost` | `OnlyStrayLost` | all |
| `TickedOutlivesPowerLoss` | `SyncedSurvives` | all |
| `NumbersAlwaysGoOn` | `NumbersGoOn` | all |

`EditSessionsProofs`:

| Theorem | Of | Faults |
|---|---|---|
| `TypeCorrect` | `TypeOK` | all |
| `HoldsFollowSessions` | `HeldWithSession` | all |
| `SessionsStayOpen` | `SessionStaysOpen` | all but `rebegin_at_expiry` |
| `ChangesNeverLost` | `ChangesSurvive` | all but `rebegin_at_expiry` and `begin_at_write` |

`TextTargetProofs`, where `Orderly` leaves out `crash_in_job`, `io_error`, `segment_rot`,
`state_rot` and `write_in_begin`:

| Theorem | Of | Faults |
|---|---|---|
| `TypeCorrect` | `TypeOK` | all |
| `NothingLost` | `NoLoss` | all but `write_in_begin` |
| `SavesKept` | `UserEditsKept` | all but `late_save` |
| `CountedOnce` | `NoDoubleApply` | `Orderly` |
| `FingerprintTrusted` | `SegmentShowsText` | `Orderly` |
| `RemovedStaysRemoved` | `NotResurrected` | `Orderly` and no `late_save` |

`PushChannelProofs`:

| Theorem | Of | Faults |
|---|---|---|
| `TypeCorrect` | `TypeOK` | all |
| `ClientsServed` | `TableServed` | all |
| `QuietlyCurrent` | `QuietIsCurrent` | all but `reload_in_hook` |
| `TextInsertedOnce` | `CommitOnce` | all |

`ReadySyncProofs`:

| Theorem | Of | Faults |
|---|---|---|
| `TypeCorrect` | `TypeOK` | all |
| `RetriesKeepMode` | `ModeKept` | all but `click` |
| `HostRemembered` | `NothingForgotten` | all but `key_connects` |

`ReadProofs` (`Overlay`, and in its last part `ReaderPool`, whose `Spec` is called `PoolSpec`):

| Theorem | Of |
|---|---|
| `TypeCorrect` | `TypeOK` of `Overlay` |
| `FoldsAreRight` | `SegmentHoldsFolded` |
| `LookupsAreRight` | `LookupsFindAll` |
| `ScansAreRight` | `ScanFindsAll` |
| `PrefixesAreRight` | `PrefixFindsBest` |
| `PoolTypeCorrect` | `PoolTypeOK` |
| `NobodyGetsStale` | `NoStaleReader` |
| `RenamedIsSeen` | `NewestAfterRename` |

`HostFocusProofs`:

| Theorem | Of | Faults |
|---|---|---|
| `TypeCorrect` | `TypeOK` | all |
| `FocusedServed` | `FocusedIsServed` | all but `fast_switch` and `overlap` |
| `ToolbarServed` | `ToolbarOnlyServed` | all but `fast_switch` and `activated_outside` |
| `Mixing` | `NoMixing` | all but `fast_switch` and `keeps_composition`, and not both `overlap` and `activated_outside` |
| `CompositionKept` | `InputKept` | all but `fast_switch`, `keeps_composition` and `overlap` |

**The engine.** `NoLoss` alone is not inductive: a fold replaces the view's segment by the one it has built and drops
records from the delta, and nothing in `NoLoss` says the built segment holds them; an open drops what
lies below a watermark, and nothing says that is in a segment. The invariant `IInv` (module
`UserDataInvariant`) supplies this: `DiskInv` (segments hold records of their own target up to their
watermark, and the state file never claims more than a segment), `NumbersInv` (everything known lies below
the next number), `ViewInv` (the view's segments are those on disk or older; every delta record is in the
journal, above the view's segment, and if a newer segment on disk covers its number, in that segment),
`FoldInv` (an unpublished fold holds the view's segment plus the delta up to its watermark; a published one
is the view's; a delta record above the watermark is in this device's journal), `CompactInv` (a compaction only
passes over targets of which all pending records are in this device's journal), and
`KeptInv` (acknowledged records are in the view, and on disk in a segment or above its
watermark). All but `KeptInv` holds under every fault (`OrderInv`), which is why single application and the growth of segments
are proved without exception; of the journal, `NumbersInv` speaks under `ReadsAll` only, which is where the numbering needs
that every open can read the sealed journals. The proof goes action by action, one lemma for each group of actions, and TLC has checked
`IInv` on small instances before.

**The refinement.** `StoreSteps` says in words of `UserData` what each action of `UserStore` asks. Then, under `IInv` before and
after a step: a batch shows new records only (`BatchIsNew`: they are in no segment and no journal), a failed
one leaves its records in `limbo`, a fold or a compaction changes neither what is shown nor what is in limbo,
an end of the process forgets, and an open shows exactly what was shown and left over.

**Journal file.** First what a scan reads: the records whose frames and all before them are whole (`ReadIff`), which
an append only adds to, an open does not change and a prune cuts at the watermark (`ReadAppend`, `ReadScanned`,
`ReadKept`; the last needs that numbers ascend, `NumbersInv`). `FileInv` says that a file nobody has torn is
whole, so that an append can be read back, and that a file that could not be reopened is all on stable storage.
`SyncInv` says what the dirty flag and the handle under way stand for: with neither, all acknowledged records are
saved; with a handle alone, all but those it covers; and if a prune has replaced the file of the handle, those too.

**Edit sessions.** A session stays open because generations grow: an end under way has read an older generation
than any begin to come, and an expiry that has decided works on files nobody wants any more (`OpenInv`). No
change is lost because an open editor has read every change made so far and no change is between its look
and its write in an open file (`ChangesInv`).

**Text targets.** A fold of a text target is not one step: it reads the file, compares it again, renames, builds a
segment, publishes it and saves the state file, and the user, a crash or an error may come in between any two.
`NoLoss` holds because the marks that let a job drop operations only move after the text holds them. The
invariant `IInv` says so: what a job has gathered covers all it will drop (`JobInv`), every mark and every number in
use lies below the next number (`NumbersInv`), a held file is written by its editor only, who knows all that is in it
(`HeldInv`), and acknowledged operations are in the text, or in the segment before there was a text, or will be
replayed, and those below every mark are not merely replayed (`KeptInv`); `BlankInv` and `DownInv` say what is empty. For counts, `CInv` adds that memory and disk agree outside a publish (`AgreeInv`),
that text, backup, editor and segment hold only operations up to the mark, each once, and that what is pending lies
above it (`CountsInv`), so a fold adds only what no version of the text has. `CountedOnce` needs the mark and the text
to move together, which is what the five faults break: `crash_in_job`, `io_error` and `segment_rot` each let TLC find
an operation counted twice, and these and `state_rot` a deleted row that comes back; the first two also part segment
and fingerprint. For the other pairs (`state_rot` with counts, `segment_rot` and `state_rot` with the fingerprint,
`write_in_begin` with all three) TLC finds no violation with two operations and one edit, but the proof does not
cover them. `RemovedStaysRemoved` follows from what was removed lying below the mark and no pending operation being
in it (`GoneInv`). `SavesKept` needs none of this: a job writes over a file only if that is the one it has read
(`EditsInv`).

**Push channel.** For `QuietlyCurrent` the frames of a client are one stream, those in its pipe followed by those
in its queue. `CurrentInv` says of each listed client that SERVICE_READY is in the stream or has been read, and that
reading the stream to its end leaves the switch at what the compat table says, unless a push to it is still
due; besides, that links and threads agree and that the service is made ready in order. `TextInsertedOnce`
counts: what was inserted and the committed texts still in pipes and queues are together no more than the
pushes (`TextsCounted`).

**Recovery of a host.** A call of the TSF thread maps the state of the host to a set of outcomes, so each function
first gets a lemma on what all its outcomes keep (`Connects`, `Sends`, `Establishes`, `Syncs`), and the callbacks
are proved from these. `IInv` relates the flags of the connection to each other (`Fit`), the retries to the reason
they run for (`Timers`), and says that one SERVICE_READY at most is under way (`Queue`). A retry keeps the mode because a mode
the user has chosen exists only on a live connection marked as established, where no retry syncs.
`HostRemembered` needs `KnownInv` besides: while no SERVICE_READY is under way, a host the service does not know
still has a flag set or a retry running, or a report on its way (`Told`).

**Overlay.** `Meaning` looks back over the whole history of a key (nothing before the last deletion counts, the
first upsert or count after it makes the entry), the code goes forward one operation at a time. `MeaningStep` says that
the two agree for one more operation of each kind, on a word that lives and on one that does not; the saturated
count agrees because a sum that was cut off and is added to is cut off at the same place (`CappedSum`). Going through all
operations takes an induction over their number. The library's induction theorems take an operator as a
parameter; `LeastNumber` takes a set instead, gets its least element from the well-foundedness of `<` on the numbers, and
`SetInduction` and `RecursionDefines` (a function defined along the numbers exists) follow from it. So `AppliedMeans`:
from what the first m operations mean, apply_ops by those after them gives what all of them mean. A sequence in order is a
matter of ranks: `RanksAre` and `FreezeIs` say that freeze holds each number once and in order, `FindIs` that
binary search and take_while find all that is wanted, if what is wanted lies together in the order, which
`PrefixOrder` shows of the codes under a prefix. `SegmentHoldsFolded` is not inductive alone. `DeltaInv` adds that the
delta holds exactly the operations above the watermark, its frozen part in order (a lookup by binary search in a
disordered part misses some), and `FoldInv` that a fold under way has what all operations up to its
beginning mean, whatever has been written since.

The streaming merge is compared with the sorted result, and `RankedIs` makes that easy: a set in a strict order has
one sorted sequence only, so a sequence that is sorted and has the right elements is the one. The loop of a
code has an invariant (`MergeInv`): what is out comes in order from what was taken, and what was taken of either
side is before what is left of the other. That includes the case of equal texts, where the entry of the
segment is taken with the key of the delta. Each round takes something (`MergeStep`), so as many rounds as there are
elements suffice (`MergeGroupIs`). The groups and what is flushed between them are blocks whose codes ascend
(`Blocks`), and such blocks joined are sorted and complete (`StreamIs`).

The limited prefix query reads the best `limit + n` of the segment, n being the number of pending operations. At
least `limit` of them are touched by no operation (`EnoughKept`), and no word that is not read weighs more
(`BestIs`). The same operations on a word that is not read and on one that is there end alike, but for a
word that is only counted (`AppliedAlike`): it is missing or weighs 0 instead of its weight, which is not
negative, and in both cases the untouched words are no worse. So a wrong entry has `limit` better ones before
it and is not shown, and a word that is missing weighs no more than any that is shown (`StandInShows`).

**Reader pool.** `Behind(v, g, l)` says that an entry older than content `v`, in the pool or about to be entered, has a
generation below `g` or a look below `l`, so whoever compares with `g` and `l` passes it over. `DoneInv` says so of
what was replaced for good before each open under way, at every step of it; a second count of the generation
makes it true, which only needs the generation to be taken first. `CalmInv` says so of what was renamed
before each open, and that during a replacement every stamp there is has a generation below the present one.

**Focus of several hosts.** The pipes are sequences of any length, so what matters of one is said by two operators: `Has(p, S)`,
one of `S` is in `p`, and `After(p, S, T)`, one of `S` is in `p` with none of `T` behind it. Their lemmas say what
a request sent or handled does to them (`HasGlue`, `AfterGlue`, `HasTail`, `AfterTail`); one lemma for each callback says
what it sends and which fields of the DLL it leaves alone (`SetFocusDoes` to `ActivateDoes`), and `HandlerEffects` what
each part of a handler does. The properties speak of moments when nothing is under way (`Settled`), the
invariant of every moment, so each part of it says "this holds, or what will make it hold is in the pipe":

* `HalfInv`: what is half handled is the first request of its connection; with the types it is inductive under every
  fault, hence `TypeCorrect`. `PipeInv`: a closed connection carries its deactivation only, and a background host neither a gained focus nor a
  key. `DocInv`: what a DLL remembers is the document that has the focus.
* `ServedInv`, with `Alone`: the focused document is served, or the last word in its own pipe is that it has
  gained the focus. A late loss of another host breaks neither, because one handler at a time sees the token it
  has checked. With `overlap` it does not, and TLC finds the violation.
* `Reported`: the service knows the client of the focused document, or will be told. `Dropped`: an
  activation in the background meets a foreground client and is dropped. `ToolbarInv`: a visible toolbar belongs to a
  connection that still has the focus or has sent what hides it (`Here`). This outlives `overlap`, because it asks
  only what is in the pipe of the active connection, whoever's handlers are under way.
* `CompInv`: a composition is in the foreground, and nothing in any pipe ends it. `InputInv`: the input without the
  orphans (`Live`) is what one DLL is composing, or what empties it or makes it an orphan is on its way (`Ending`: the end of
  the composition, a loss that clears it, a deactivation); this is `NoMixing`. `KeptInv`: what is being composed in an
  editable document is in the input.

Parts are conditional on the faults they do not outlive (`Orderly`, `Inside`, `Closing`; `Patient` stands
before all), so that one induction serves the four safety properties. The exceptions in the table are those for which TLC
finds a violation. For `NoMixing` with `overlap` and `activated_outside` together the attempt to prove it showed where to
look: TLC finds the violation with four activations (section 4), more than the run has.

Model-checked only: the liveness properties (fairness and `ENABLED` are out of reach of the prover).

## 6. What is left out

* In the modelled parts: the read-only second instance (it writes nothing), `clear` and import of targets
  kept in segments (another policy of the same fold), abbreviation and pattern queries, line patches and
  comments of word lists, clocks that go back, and a power loss that undoes a rename.
* Of the connection to the hosts: the push server of Linux and macOS (`push_unix.rs`, where the server issues the
  tokens and announces itself at the connection), the other frames of the handshake, answers of the request
  pipe that come late, edit sessions of TSF and the composition's text, and which keys the coordinator
  handles: in `HostFocus` a key extends the input or commits it.
* The other components of section 1: pure functions over large dictionaries (engines, candidates,
  transformation, command bar) have no state a model checker would help with; user interface and mobile
  facade are platform code; word lists, the building of dictionary caches, migrations, statistics and events are in the plan.
