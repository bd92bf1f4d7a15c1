# sys-autopilot: TLA+ models, checks and proofs

sys-autopilot is a background process of the Nintendo Switch that serves an HTTP
and MCP API: files, input injection, screenshots, process control, installation.
One thread does everything. What makes it hard is not parallelism inside the
process but what happens *around* that thread: the console's power service (PSC)
asks for a sleep in the middle of a request, the network goes away, the owner
edits a file on the SD card, the console loses power between two file
operations, another process holds a service or a file the server needs, a client
sends half of what it announced.

## Inventory

| part | source | state | what is hard |
|---|---|---|---|
| server loop | `core/http_server.c` | listener, mDNS socket, client, `suspended`, ticks | a sleep request anywhere in the loop; what must be released before it is acknowledged |
| power state | `platform/power.c` | `g_pending_state`, `g_deferred`, `g_scheduled` | a request read inside a wait and delivered later; failing reads |
| address watch | `platform/netif.c` | baseline address | changes between two readings |
| mDNS | `core/mdns.c` | advertised parameters, announcements left | stale parameters; packets with compressed names |
| logging | `core/log.c` | level, suspended flag | file I/O during a sleep transition |
| router | `core/http_router.c`, `core/config.c` | routes, public prefixes, credentials, hooks | authentication before dispatch; overlapping prefixes; the wait hook |
| OAuth | `features/oauth/` | `tokens.txt`, `g_tokens`, its mtime, `g_codes` | edits by hand, power loss in a rewrite, full tables, deadlines |
| HTTP connection | `core/http.c` | request, body counters | pipelined bytes, 100-continue, draining, stalled peers |
| request memory | `core/request.c` | bump pointer | mark, rewind and trim in one request |
| MCP server | `features/mcp/`, `util/base64.c`, `util/json.c` | scanner, decoder, temporary file | a chunk boundary or a failure at any byte of a stream |
| input | `features/input/` | work buffer, virtual controller, touch | sleep and lending between two calls |
| process control | `features/process/` | last launched process, boost, hid:dbg loan | a program that exits by itself; failing take-back |
| NRO launcher | `features/nro/` | the launcher's file, renamed | hbmenu's pace; a failure between rename and restoration |
| files | `features/files/` | files and temporary files | replacing a file when the connection or the power drops; a file that changes while it is waited for |
| installation | `features/install/` | placeholders, registered contents, meta entries, records | a forward-only stream, verification, rollback |
| screen | `features/screen/` | two thumbnails | waits over captures that fail |
| settings, network, crash reports | `features/*` | the console's own | partial failure, stale reads, full tables |
| titles, status, start-up | `features/*`, `app.c`, `main.c` | none | none |

The loop calls the router, the router the features' handlers; handlers that wait
call back into the loop's idle hook, which polls PSC; features register a hook
that runs before each sleep and one before each request.

## Modules

| module | models |
|---|---|
| `Power` | `power.c` and PSC, which asks one thing at a time and waits for the acknowledgement |
| `Netif` | `netif.c` and the console's address |
| `ServerLoop` | `http_server_run` with its connections, over `Power` and `Netif` |
| `TokenStore` | `tokens.txt`, its table in memory and the modification time between them |
| `AuthCodes` | the table of pending authorization codes |
| `OAuth` | login, token endpoint, the two MCP tools, restarts and the owner's edits, over both |
| `Input` | `input.c`: work buffer, virtual controller, touch, over the single session of `hid:dbg` |
| `Process` | `process.c`: launches, the loan of `hid:dbg` and the memory boost, with pm |
| `Lending` | the input and process requests with the programs beside them, over both |
| `SdCard` | the card: paths, temporary names, one directory, files another process holds |
| `Files` | `files_http.c`, `files_mcp.c`: uploads, deletions, moves, over `SdCard` |
| `NroLauncher` | `nro.c` and hbmenu, over `SdCard` |
| `AtomicFiles` | what the file features promise a client: the abstract specification |
| `Storage` | `Files` and `NroLauncher` on one card with power loss; implements `AtomicFiles` |
| `RequestMemory` | `request.c`: the bump allocator |
| `HttpConnection` | `http.c` and the connection handling of the loop and the router, over `RequestMemory` |
| `Install` | `install.c`, `install_http.c`, with ncm, ns, es and fs as services that may fail |
| `Jstream`, `Base64` | the scanner and the decoder a streamed upload goes through |
| `FileWait`, `ScreenWait` | `files_wait` with `search_file`; `screen_wait` |
| `McpServer` | `mcp_server.c`: POST /mcp, over the four |
| `Router` | route tables, authorization, dispatch, the credentials of `config.ini` |
| `MdnsQuery` | the answer to a received mDNS query |
| `Crash`, `Network`, `Settings` | crash lists; DNS setting; theme, nickname, levels, clock, airplane mode |
| `Json` | `json.c`: lookup among tokens, strings, numbers |
| `FileReads` | downloads, ranges, listings, texts and hashes |
| `Features` | the previous seven together |
| `ServerLoopProofs`, `OAuthProofs`, `LendingProofs`, `StorageProofs`, `HttpConnectionProofs`, `InstallProofs`, `McpProofs`, `FeaturesProofs` | theorems |
| `MCServerLoop`, `MCOAuth`, `MCLending`, `MCStorage`, `MCInstall`, `MCMcp`, `MCFeatures` | instances for TLC |

Definitions carry the names of the functions they stand for; `PROJECT.json`
gives the lines. Definitions introduced by *Faulty* or *Bug* are not part of any
specification: each is a variant of the definition after it with a plausible
mistake, kept to show that the properties notice it.

### ServerLoop

`pc` is the place in the loop's body; one action per call that reads or changes
something another party sees. `io` is the set of services the latest step
called. A handler is abstracted to what outlives it (work buffer attached, power
action scheduled) and may wait; a wait is a bounded number of slices, each
running the idle hook. Clients connect, stall, keep alive or close at will. PSC
asks for any state at any time, one request at a time. Reads of a request,
binds, polls, accepts and sends may fail, up to named bounds; a listener that
dies without any call failing is not a state of the model. `late` counts, since a
ping of `keepawake_maybe` fell due, the requests answered and the slices waited
before it was sent: `PingNeverLate` needs the call in the idle hook
(`http_server.c:198`), because a handler's wait would otherwise add to it slice
by slice.

Fairness is weak fairness of the thread as a whole: it is always runnable, and
every blocking call in it has a timeout. Nothing is assumed of PSC, the network
or clients.

### OAuth

A file is a set of numbered lines and a modification time, 0 when it does not
exist, as in `tokens_refresh`. Writes may leave the time unchanged (FAT has a
resolution of two seconds) unless `StrictClock`. Handlers run one at a time;
`oauth_revoke_token` is three steps (copy, remove, rename) between which the
console may restart and the owner may edit. Random tokens and codes are fresh
values, digests are their arguments, a PKCE verifier is the challenge it hashes
to. `kept`, `revoked`, `grants`, `issued` and `spent` are history variables the
properties are stated with.

### Lending

`hiddbg` is the owner of the service's only session: the server, nobody or a
process. Every request starts with `process_reclaim`, as the router's hook does;
`pc` then follows the handler, one action per call that another party observes
or can disturb. `lend` makes `input_suspend` and `hiddbgExit` one step: what
remains held after them is seen, the order of the two calls is not. A stick is a control like a button: both are parts of the state
that every push sends whole. pm's processes run beside the server: a started one
opens `hid:dbg` if nobody has it, any one may exit at any time, and a terminated
one is *dying* until it is reaped, as the comment in `process_restart` describes.
Programs running since boot found the service taken: the server aborts at
start-up if it cannot open it. With `Reliable` false every call of pm, sm or hid
may fail at any time; with it true a call fails only for a cause the model has
(no session, no such process), except that a launch may always fail.

The fairness of `FairSpec`: the thread runs, `process_wait` has a deadline,
clients keep asking (the loan is only looked at when a request arrives), and the
kernel finishes the teardown of a terminated process. No program has to exit.

### Storage

A file is a version (whose content) and a number of parts, whole at `Parts`.
Every call on the card is a step, so the power may go between any two; a rename
never overwrites, and a file hbmenu holds open answers no call. Deleting a
directory is two steps, the look and the `rmdir`, between which hbmenu may make
its file; a look whose `opendir` fails sees an empty directory. hbmenu is a
process of its own: it truncates the path, writes as the server sends, and closes
when it likes. With `HbmenuPrompt` it creates the file only while the server is
connected, and has let go of it when a failed launch removes it. The run assumes
that; without it the launch
does not restore what it promises (see *Known disagreements*).

`AtomicFiles` is the client's view: a path goes from one whole version to
another with at most a gap while an upload is moved into place; a launch gives
the path back; torn and missing files come only from lost power or a failing
card, and success is answered only for what is on the card. `Storage` maps the
path's file to its version, or to torn or absent, and its job to the abstract
operation (`Atomic == INSTANCE AtomicFiles WITH ...`), and
`ImplementsAtomicFiles` is the abstract specification under that mapping.
`CopySurvives` says more than a client sees: what was once whole is on the card,
at its path, in the upload's temporary file or in the launcher's copy, until a
client removes it, the card fails the last rename of its upload, or an operation
starts on it while it is not whole. `NoFileLostWithDirectory` says that a
directory which could be looked into takes no file with it, temporary ones
included.

### HttpConnection

The wire is a sequence of cells: two for the headers of a request, one per unit
of its body, each with the request it belongs to. `recv` hands over any part of
what arrived. Headers are read until their end is in the buffer, and what follows
is kept as the first bytes of the body, and of this request only: `CleanBoundary`
says that for clients who wait for the answer before they send the next
request, every request is parsed from its first cell, whatever the handler read of the
one before; `BodyIsOwn` that no handler is given a cell of another request.
Fairness is weak fairness of the server's steps: every `recv` returns within its
timeout, and a handler finishes; using request memory is not fair, so it may stop
at any time.

### Install

A stream has tables and files at offsets; `consumed` is the code's counter and
the true position is beside it. What is written to a placeholder is right when it
came from the file's own offset. Each ncm, ns and es call may fail; of the
deletes of a rollback, whose results nobody looks at, any may, and `AllOrNothing`
claims nothing of a request that left contents that way. Deleting a placeholder
(`install.c:298`, result ignored as well) is taken to succeed: what the property
says is that none is in use any more. The prefix is
2 units and headers are shorter than, as long as and longer than it. Fairness:
the installation goes on (the stream's `recv` has a timeout); nothing is assumed
of the client, who may end the stream at any unit.

### McpServer

The client produces a JSON-RPC body one character at a time, any document of the
grammar the scanner distinguishes, nested objects, arrays, empty and overlong
names, names with `\n` or `\uXXXX` in them, members named like the target at other
places, and cuts it into chunks anywhere. In the content it writes `\/`, `\n`,
`\"` and `\uXXXX`, the last standing for any character. `InContent`, kept by the
client, is the reference for where the scanner must divert: the path as it is
written, without escapes. `content` is what a JSON reader makes of the string,
and `Meaning`, the RFC's reading of a whole text, the reference for the decoder.
`faulty` records which calls failed: opening and writing the temporary file, its
`fclose`, which may lose any end of what was written and is not looked at, the
rename, the `remove` of `upload_cleanup`. The waits follow a file another program appends to,
truncates or removes between any two calls, and a screen that shows any frame;
their answers are compared with what was really there.

### Features

Seven parts that share no state. A behaviour chooses one, any state it can be in
and any request, and takes the steps of that request; a property compares the
result with a definition of what it should be that does not follow the code's
steps. `Network` has several steps, because the connection and the profile change
between the calls of one request: the two reads of an answer, and the read and the
save of a change, which overwrites what the owner edited in between; `Settings` has every service call fail at will.

## Runs

| run | checks | bounds |
|---|---|---|
| `server_safety` | quiescence and silence in sleep, acknowledgements, scheduled actions, no late keep-awake ping | two sleep and two wake states, so that a request can be confused with an earlier one of its kind; 2 requests per connection, 2 wait slices, one failing call, one failing read |
| `server_liveness` | every request acknowledged, listener restored, a detected address change advertised | one state of each kind, reliable reads, two addresses or none and one change |
| `oauth_store` | a revocation is final | 3 tokens, table of 2, so that the file outgrows it; 3 times, 1 failing operation, 2 edits |
| `oauth_codes` | one token per login, matching grants, no live code lost too early, memory and file agree | one redirect address (the proof has any number); 3 codes in 2 slots, lifetime of 1 tick, so that a code is live, at its deadline and expired; 2 tokens, table of 1; no edits |
| `lending_faults` | nothing of hid's is held without its session | 2 programs, 2 controls, 3 pids of which 1 runs since boot, any call failing |
| `lending_single` | no program twice, boost and session respected and returned | one program, running since boot or not, 3 launches, stop and restart |
| `storage` | a whole copy survives, a directory takes no file with it, `AtomicFiles` is implemented | 2 paths, one an NRO in a directory, so that operations meet on a path, beside it and above it; 2 versions to tell old from new; 2 parts, so that a file can be torn; 1 settling try |
| `http` | clean boundaries, own bodies, disjoint blocks, the connection ends | 3 requests where the connection serves 2; bodies of 0 to 2 with 1 allowed by the drain guard and 1 by the JSON limit; headers of 2 cells in a buffer of 4, so that a pipelined request is split by it; memory of 4 in blocks of 0, 1 and 3 aligned to 2 |
| `install` | no wrong bytes registered, whole or rolled back as far as ncm obeys, every request ends | 11 containers of up to 5 files, headers below, at and above the prefix of 2 |
| `install_prefix` | the code's own account of the stream's position (violated) | the same |
| `mcp` | exact diversion, uploaded as sent, no temporary file survives unless a call failed, both waits tell the truth | documents of 23 characters, ten member names over a key buffer of 1 letter, among them the empty, overlong and escaped ones; content of 4 (a whole group) over three symbols, padding, newlines, others and escapes; a needle of 2 in a buffer of 3 and a file of 4, so that it falls across reads; 3 polls; frames 0 to 2 that differ at a distance of 2, so that a drift does not count |
| `features` | newest reports, settings, DNS, mDNS answers, dispatch, JSON, reads | tables of 2 with 3 entries in two directories; leap, century and month ends; names with pointers that loop, leave the packet or chain past the 1 hop allowed; 3 overlapping routes; strings and numbers around each buffer size; files over several buffers, ranges before, across and past the end, UTF-8 cut anywhere; see `MCFeatures` |

Deadlock is checked everywhere but in `features`, where a behaviour is one
request and ends with its answer.

## Known disagreements

Where the code does not do what a comment or document of the repository says. The
first is a run of its own; for each of the others the property is stated in the
module, and replacing the properties of the named configuration by it makes TLC
show a behaviour.

| said | done | property | configuration |
|---|---|---|---|
| `install.c:463-464` "`consumed` tracks how many bytes of the stream we've read"; `install.c:751-752`: the peeked bytes are handed on "since the stream is forward-only" | `install.c:669`: of the peeked 0x1104 bytes an NSP uses its header and loses the rest; the first file fails its hash and the install is refused | `ConsumedIsPosition` | `InstallPrefix.cfg` |
| `netif.h:11-12`: connectivity changes "are detected by polling the current IP for changes" | `netif.c:59`: a change before the first check becomes the baseline and is never noticed | `AdvertisesCurrentAddress` | `ServerLoopLiveness.cfg` |
| `oauth.h:24-25` "Reloads the tokens file when its mtime changes, so edits apply without a reboot." | `oauth.c:208`: an append records the new time without reloading, so a line deleted before it stays valid. With `StrictClock = TRUE`, `MaxFaults = 0` and `MaxClock = 5` it needs no clock granularity | `DeletedLineRefused` | `OAuthStore.cfg` |
| `oauth.h:13-14` "Issued bearer tokens are non-expiring and persisted" | `oauth.c:210`: a token minted with a full table is written and never accepted | `IssuedTokensAccepted` | `OAuthCodes.cfg` |
| `oauth.c:240-241` "Rewrite the file without the revoked token's line (preserving other lines, including their comments)." | `oauth.c:262`: the file is removed before its copy is renamed; power lost in between loses every token | `RevokePreservesOthers` | `OAuthStore.cfg` |
| `README.md:170-172` "The input endpoints fail until it exits or is stopped. The server then takes the service back by itself." | `process.c:277`: a stop takes `hid:dbg` back before the dying program let go of it, and never tries again | `InputReturns` | `LendingSingle.cfg` |
| `input.h:31` "Press+release: applies mask, sleeps duration_ms, releases mask." | `input.c:202`: a failed tap leaves its buttons in the state that a later request pushes | `PressesOnlyAsked` | `LendingFaults.cfg` |
| `nro.h:30` "The NRO on the SD card is left as it was on any failure." | `nro.c:263-265`: while hbmenu still holds its file neither the removal nor the renaming works, and both results are ignored | `NroLeftAsItWas` | `Storage.cfg` with `HbmenuPrompt = FALSE` |
| `files.c:135` "Checked by hand: the console's rmdir() does not report ENOTEMPTY." | `files.c:136-143`: when `opendir` fails nothing is checked, `empty` stays true, and the `rmdir` goes ahead on a directory that has contents | `NoFileLostUnseen` | `Storage.cfg` |
| `files_mcp.c:133` "wrote %zu bytes to %s" | `mcp_server.c:119`: the result of the `fclose` that writes the last bytes is ignored, so a file cut short by a full card is confirmed with the full length (`files_http.c:195` looks at it) | `ConfirmedIsWhole` | `Mcp.cfg` |
| `mcp_server.c:458` "Whatever happened, no upload temp state may survive the request." | `mcp_server.c:105`: content that decodes to no bytes, closed and then not renamed, has neither file, bytes nor failure on record, and its file is not removed; a `remove` that fails (`mcp_server.c:106`) is not noticed either | `TempNeverSurvives` | `Mcp.cfg` |
| `jstream.c:57-58` "Any other escape stands for a character base64 never uses."; `jstream.h:20` "(never base64)" | `jstream.c:59-63`: `\uXXXX` may spell any character, those of base64 too; such content is refused | `RefusedEscapeIsForeign` | `Mcp.cfg` |
| `jstream.h:8-10`: the string at `$.params.arguments.content` is streamed to the sink | `jstream.c:93` "escaped keys can't match": a name of the path spelled with `\uXXXX` is the same name to a JSON reader and is not diverted. `DivertsExactlyContent` is about the path as it is written | none: the escaped letter is not resolved in names | |
| `files.h:61`: waits "until fspath exists and [...] holds that text" | `files.c:260-262`: a look whose `fopen` fails finds nothing, and `files.c:312` counts the file as searched, so the text is not found at later looks either; nor is it in a file that was replaced by one at least as long as what was searched (`stale` in `FileWait`) | `WaitMissesNothing` | `Mcp.cfg` |

`InputReturns`, `AdvertisesCurrentAddress`, `PressesOnlyAsked`,
`NroLeftAsItWas` and `NoFileLostUnseen` are PROPERTYs, the others INVARIANTs.

Behaviour that modelling brought up and no document speaks about; the models
have it, except where they say otherwise:

- `settings.c:43`: a clock that cannot be read is ignored, and the fields a request
  leaves out count as zero: a date without a time sets the clock to midnight.
- A crash report's timestamp is POSIX seconds or ticks, by its directory; the two
  are compared with each other.
- `install.c:604-614`: when only the application record cannot be pushed, the
  committed meta entry stays although its contents are deleted. A failed
  reinstall has deleted the old contents.
- `files_http.c:82`: a file that is shortened, or a read that fails, during a
  download leaves the answer shorter than its Content-Length.
- `files_mcp.c:103`: a failed seek is ignored and the text is read from the
  start; `files_mcp.c:87`: an offset is cut to an int.

## Proofs

`ServerLoopProofs` proves, for every set of requests and addresses and every
bound, type correctness, `SleepQuiescence`, `SilentWhileAsleep`,
`AckAnswersRequest`, `ScheduledLeavesWithClient` and `PingNeverLate`. None of
them is inductive:
that PSC considers the console asleep says nothing about where the thread is.
`IInv` adds that a request that was read is the one PSC still waits on, that the
loop's flag and PSC agree, that what each place has released is still released,
that a scheduled action is pending only while its client is served, and that a
due ping is at no place of a connection later than the requests served in it. Each
part is preserved action by action (one lemma per part).

`OAuthProofs` proves type correctness, `RevokedStaysRevoked`,
`OneTokenPerLogin`, `GrantsMatchLogins` and `LiveCodeLostOnlyToNewer`, and
`AcceptsFirstTokensOfFile` as long as the owner has not edited the file and no
file operation has failed (`Undisturbed`, which a behaviour leaves with its first
edit or failure; *Known disagreements* says what happens then). A revoked token
could come back from the file, from the copy a revocation in progress is about to
rename, or from memory; `RevokedInv` excludes all three. `CodesInv` says that a
slot in use holds the code of one login, in no other slot, that was never
redeemed. That the table never overflows rests on `LoadedBound`, a counting
argument over the line numbers of a file of any length. `PickedSlotType` shows
that `code_create` always finds a slot, and takes a live one only when every slot
is live and none is older; the codes of such a table are an injection into the
logins no older than the lost one (`FullTable`), which `LoginsInv` keeps finite
and distinct. `Agrees` is the relation of memory and file at each place of
`oauth_revoke_token`; that an append keeps it needs `AppendedLoads`: a token at
the end of the file is loaded exactly when the table was not full.

`LendingProofs` proves type correctness and `HeldOnlyWithSession` whatever calls
fail. Under the hypothesis `Reliable` it proves `OneInstance` and
`BoostOnlyOnLoan`; the two need that the pid `process_status` trusts is the only
process of its program (`LastIsTheOnly`), that nothing runs the program about to
be launched (`LendsToNew`), and that pids are issued in order. With the further
hypothesis of a single program it proves `LoanRespected`, through `SingleInv`:
the session is reopened only when every process is dying or gone. Neither
hypothesis can be dropped: a pm:info that does not answer makes `process_start`
launch a running program again, and the failed launch of a second program
reopens the session while the first one runs. The hazards list both.

`HttpConnectionProofs` proves `BlocksDisjoint`, `BodyIsOwn` and `CleanBoundary`
for every arena, alignment, buffer, body and number of requests. What a handler
holds lies below the bump pointer and behind the last mark, in the order it was
taken, which a trim and a rewind keep; the connection's invariant
(`ConnectionInvariant`) accounts for every cell: what the peer sent is what was
parsed, what is buffered and what is still to come, and the buffer belongs to the
request being served.

`StorageProofs` proves `NoFileLostWithDirectory`, `CopySurvives` and that `Storage` implements
`AtomicFiles` (`StorageImplementsAtomicFiles`), for every set of paths, versions
and parts. The invariant (`StorageInvariant`) says at each place of an upload, a
move or a launch which names hold which contents, and that the temporary name is
the server's own. Every step of the detailed specification is then one abstract
step or a stutter. All three have the hypothesis `HbmenuPrompt`, as the run does;
without it the code does not restore the NRO. With it, a directory found empty is
still empty at the `rmdir` (`LookRight`): hbmenu makes a file only while a launch
is under way.

`InstallProofs` proves `AllOrNothing` for every set of containers and every
failure, those of the rollback's own deletes included, through an invariant that
the rollback list covers whatever the install made, and `RegisteredBytesRight` of every stream that is `Laid`: an NSP, or an
XCI whose partitions lie behind one another and past the prefix, whose files are
not empty and do not overlap, and where files with one id are all intact or none.
An NSP's contents are hashed, so nothing more is needed; an XCI's are not
(`install.c:442-444`), and only the counting of its bytes (`Counted`) makes them
right, which a container that is laid out otherwise would upset.

`McpProofs` proves that the scanner diverts exactly the content string of every
well-formed body (`DivertsExactlyContent`), and that both waits tell the truth
(`WaitTellsTruth`, for waits that could open the file at each look and saw every
replacement, and `ScreenWaitTellsTruth`). The scanner's invariant `ScanRight`
ties its depth, its path and its state to the client's stack of open objects and
arrays, for every depth, key buffer, document and set of member names; a name that
outgrew the key buffer or has an escape in it is none of the path's
(`LongerIsOff`). `FileWaitRight` says that the
bytes carried between two reads are the last ones of what was searched, so a
needle across a boundary is not missed; it needs a buffer that holds the needle
(both callers give one of 0x8000 bytes and a text of at most 256).
`ScreenWaitRight` relates the two thumbnails and the stable time to the frames
that were captured.

It also proves `UploadedAsSent` and `NoTempSurvives` of the streamed write, for
every alphabet, text and cut into chunks and whichever calls fail. `DecodesExactly` says that the decoder,
which keeps up to three characters and a count of `=` between calls, accepts
exactly the texts the reference of `Base64` calls `Valid` and gives their bytes;
it rests on a text that more characters could still make valid (`Layable`), which
every accepted prefix is. `UploadRight` then relates, at each place of an upload,
the decoder's state, the characters received, the bytes that wait in its buffer
and those in the temporary file, of which the close may keep any beginning. The attempt to prove this showed that the
reference used to take a text with too much padding for valid; the code refuses
it, and the reference now does.

`FeaturesProofs` proves `DnsNotGuessed` for all addresses, because a connection
uses the profile as it was saved last (`LinkFollowsProfile`) and the copy a change
saves is what was asked for (`SavesWhatIsAsked`), and the action
property `SettingsAsAsked` for every range, level, unit and date: the volume is
the nearest level by a division with rest (`NearestLevel`), and `days_in_month`
is the calendar given by counting leap days (`LeapYears`, `ValidIsReal`).
`DispatchRight` holds for every `config.ini`, table of routes, prefix and request.
`NewestReports` holds for any number of reports in any order of the directory: the
invariant of the listing (`Top`) says that the table is in order, and that a
report read and not in it was refused by a full table whose entries all come
before it. `ReadsAsStored` holds for every card and request: a path that resolves
does not climb above the root (`ResolvedDoesNotClimb`), a range becomes the bytes
of the file it names (`SliceIsRange`), the pieces copied are the part asked for
(`CopiedIsPart`), a listing names each entry up to its limit once
(`ListingRight`), and text stays within what UTF-8 allows (`TextIsClean`).
`AnswersWhatIsAsked` holds for every query: any questions, names and pointers, cut
off anywhere. The loop of `name_equals` passes the cells of a name's trail in
order (`WalkFollowsTrail`) and accepts exactly the names spelled along it across
at most `MaxHops` pointers, so a pointer that loops is refused (`NameRight`);
`SkipRight` and `ScanRight` carry this over the questions that are whole, and the
set of records they want is closed to what is due (`DueIsBundle`).

What a loop over data computes is proved by induction in first-order form. The
loop is a recursive function of a position, which exists (`RecursionExists`) and
has a value at each position that depends on the one before; that a set of
positions holds 0 and each next one, hence all (`SetInduction`, from
`LeastNatural`), replaces the library's theorems that take an operator.

The inductive invariants are proved and not listed in a configuration; each was
checked by TLC on the run of its module and can be added there.

The assumptions are those named in the modules (`PowerAssumption`,
`NetifAssumption`, `ServerLoopAssumption`, `TokenStoreAssumption`,
`AuthCodesAssumption`, `OAuthAssumption`, `ProcessAssumption`, `OpsAssumption`,
`RouterAssumption`, `Base64Assumption`, `CrashAssumption`, `FileReadsAssumption`,
`MdnsAssumption`, `JstreamAssumption`, `McpServerAssumption` and those of the other
modules): types of the parameters, distinct sentinels and
sizes the code's own constants have.

Only model-checked:

- the liveness properties: fairness is outside the prover;
- `JsonReadsBack`: reading follows the nesting of a document, and a number is
  converted digit by digit; neither has been brought into a form over positions.

## Not modelled, and why

- The scaling of frames and the JPEG transcoder, SHA-256: arithmetic over pixels
  and bytes, out of TLC's reach at a useful size. A hash is taken to tell any two
  contents apart, and two thumbnails differ by their distance.
- `lib/jsmn`: third-party code. `Json` has its tokens where its documentation
  puts them.
- The fields of partition headers, of the CNMT and of tickets: a container's
  tables and files are data, and a header is read or refused.
- The bytes of mDNS records, the cleaning of the host name, the wording of pages,
  discovery documents, tool lists and JSON answers: no decision depends on them.
- Argument parsing of the input, process and NRO front-ends: it ends in the calls
  the models start from.
- The keyboard override of `input_type_text`: set and unset in one handler.
- Moving a directory (`files_move_path`): a file is moved; the names below a
  directory would follow it in one rename.
- A handler that gives up within its body after a failed write
  (`files_http.c:189-192`) is not told from one that answers without reading it
  all: `drain_body` takes the rest either way.
- Titles, status, the process list: one question to the system each.
- Start-up (`app.c`, `main.c`), the other keys of `config.ini`, log rotation: run
  once, before any request, or between two lines of a file nobody reads.
- The host build's stand-ins (`#else` branches for tests).

## Plan

1. Refinements: an abstract sleep protocol implemented by `ServerLoop`, an
   abstract set of credentials implemented by `OAuth`.
2. `JsonReadsBack`, with the reader and the number conversions as functions of a
   position.
3. `OneInstance` and `LoanRespected` under weaker hypotheses than `Reliable`.
