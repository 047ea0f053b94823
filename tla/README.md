# Verification of pdf-editor

TLA+ models of the parts of pdf-editor where several actors, failures or long
sequences of legal calls make the code hard to test, the TLC runs that check
them on small instances, and TLAPS proofs of what matters most for every
instance. `PROJECT.json` lists the components, the runs, the lines of source
each definition models, the hazards and the findings.

    tlc -config MCSessions.cfg MCSessions      # a run
    tlapm SessionsProofs.tla                   # a proof module

## 1. The system and its hard parts

pdf-editor is a browser PDF editor with accounts. The PDF work happens in the
browser (a WASM engine in a Web Worker); the server (Axum, SQLx, PostgreSQL)
keeps accounts, sessions, second factors and an e-mail outbox. All of the
server's lasting state is in PostgreSQL; requests run concurrently, each with
its own transaction under READ COMMITTED, and may be cancelled at any `await`
by the 30 s `TimeoutLayer`.

| component (source) | state | operations | what makes it hard | what makes it correct |
|---|---|---|---|---|
| sessions and account life cycle (`auth/service.rs`, `lifecycle.rs`, `recovery.rs`) | `users`, `sessions` | register, login, refresh, logout, revoke one / others, change and reset the password, delete the account | statements of several transactions interleave; what was read and verified is old when it is used; row locks; bulk UPDATEs on snapshots | one cookie is used once; no session outlives its account or escapes a password change; no change is lost; all requests are answered |
| account links (`auth/recovery.rs`, `email.rs`) | `account_tokens`, `users.email_verified_at` | ask for a link, confirm it, expire, prune | asking locks user then tokens, confirming token then user | one open link per purpose, used once, closed by a reset |
| e-mail outbox (`email.rs`, `main.rs`) | `email_outbox`, the dispatcher task | queue, claim, deliver, settle, retry, recover, clean up | the process stops between accepting and recording; lost SMTP answers; rows withdrawn or taken over while in hand; two processes in a rollout | one dispatcher per message, truthful and final statuses, bounded attempts and duplicates, no queued message forgotten |
| second factor (`auth/passkey.rs`) | `webauthn_credentials`, `webauthn_ceremonies`, `backup_codes`, `users.mfa_required` | start and finish a registration, login by passkey or code, regenerate codes, remove a passkey, disable | counts that decide what happens are read without a lock; four tables locked in several orders | a ceremony and a code admit once; MFA is required exactly when there is a passkey |
| login lockout and rate limits (`service.rs`, `rate_limit.rs`) | `failed_login_attempts`, `locked_until`, `rate_limit_buckets` | count, enforce, lock, clear, clean up | counters and windows against a clock, rows read before a slow verification, counters deleted while requests count | a window admits its limit; no failure is lost; a lock holds |
| maintenance (`maintenance.rs`) | an advisory lock, rows past their retention | five batched deletions in one transaction | two replicas, bounded batches, passes that fail | nothing that still counts is deleted; what expired goes |
| browser session (`frontend/src/auth.rs`, `backend/src/auth/http.rs`) | the cookie of the browser, the CSRF token in `sessionStorage` of each tab, the session in memory | restore on load, refresh on a timer, sign in, log out, follow a link, settings | lost and late answers, several calls of a tab at once, tabs that share a cookie | a session that is shown works; no live session is forgotten |
| PDF page and content operations (`crates/pdf-engine`) | the object tree of a document | merge, split, rotate, reorder, crop, watermark, flatten | object numbers drawn by hand, attributes inherited up a tree that is rebuilt, resource names, outputs used as inputs | the pages a viewer shows are those asked for |
| workbench, worker client and protocol (`frontend/src/main.rs`, `worker.rs`, `pdf-worker`) | the form, the job, object URLs, one worker per job | choose, process, post, answer, refuse, fail | an answer, an error event, a failure to post, or nothing | one job at a time, one outcome per job, no URL leaks |
| scripts (`scripts/*.sh`) | releases, backups | deploy, roll back, back up, restore | stop between two external commands | the current release and the newest backup are usable |

They interact as follows. The browser calls the HTTP layer, which selects the
session row from two cookies and a CSRF header and calls the service. Login
passes the rate limit, then the lockout, then asks the second factor, and both
create sessions. Registration and the recovery endpoints queue tokens and
outbox rows in their own transaction; the dispatcher task takes those from the
database alone. Deleting an account takes everything with it through foreign
keys. Maintenance deletes what has expired and skips locked rows. The PDF page
and its workers share nothing with the server.

## 2. Modules

| module | what it is |
|---|---|
| `Sessions` | sessions and account life cycle, one action per SQL statement |
| `SessionLedger` | what the session endpoints promise, one step per request; `Sessions` implements it (`ImplementsLedger`) |
| `AccountTokens` | the links of one account, one action per statement |
| `EmailOutbox` | outbox rows, dispatchers, mail server, process stops |
| `Mfa` | passkeys, backup codes and ceremonies of one account, one action per statement |
| `Limits` | rate-limit windows, lockout and their clean-up against one clock |
| `Browser` | the tabs of one browser and their calls, over `SessionLedger` |
| `Lists` | functions and sequences as both PDF modules use them |
| `PageList` | what the PDF operations promise: a sequence of pages |
| `PdfPages` | the PDF operations on object trees; they implement `PageList` (`ImplementsPageList`) |
| `Workbench` | the PDF page, its jobs and workers, with `PdfPages` as the engine |
| `MC*` | instances of those for TLC |
| `SessionsProofs`, `AccountTokensProofs`, `EmailOutboxProofs`, `LimitsProofs` | theorems about one module each |
| `MfaProofs` | the theorems about `Mfa`: single use, lock order, consistency |
| `BrowserProofs` | that a quiet tab shows what works and no live session is forgotten |
| `PdfPagesProofs` | what the walk down a page tree returns, that every PDF operation hands back a sound document, and that pruning and renumbering keep what is shown |
| `WorkbenchProofs` | the page's part of `Workbench` (one job, no URL leaks); that `PdfPages` implements `PageList`, operation by operation; and both together |

Two modules compose others: `Browser` takes the ledger that `Sessions` is
proved to implement for its server, and `Workbench` calls the engine of
`PdfPages`.

### How the database is modelled

`Sessions`, `AccountTokens` and `Mfa` share one way of modelling PostgreSQL.
The committed rows are state; what an open transaction has written is kept
apart, as locks and drafts, and becomes visible in one `Commit`. A statement
sees what is committed when it starts (and its own transaction's writes). An
UPDATE or DELETE of one row waits while another transaction has written it and
then looks at the row again: the guard asks that the row is free and evaluates
the WHERE clause on what is committed now. One over many rows takes a snapshot
of the matching rows in one action (`BulkSnapshot`, `Sweep`) and visits them
in any order, rechecking each (`LockRow`, `MissRow`, `SweepRow`). Inserting a
row with a foreign key takes KEY SHARE on the users row, which conflicts with
that row's deletion only. A wait cycle is broken by aborting a member
(`DeadlockVictim`). `Cancel` is the timeout, a client that hangs up, a failed
statement or a stop: the transaction rolls back. "ok" means committed, whether
or not the answer still reaches the client.

Each request performs at most one operation and inserts at most one row per
table, so a row is named by its request. A request that is refused before its
first write changes nothing and is not a step; a request whose reads precede
its transaction has its own action for the read (`LoginRead`, `ChangeRead`,
`DeleteRead`, `ReadPasskeys`, ...), and works afterwards with what it saw.

### Sessions

`user` is the users row (state, `token_version`, password), `sess` the
sessions rows (state and the version the access token issued with the session
carries), `seen[r]` the `UserRecord` a request carries through its handler,
`rows[r]` what its current statement has still to visit. `refresh` revokes its
row and only if a row came back (`RETURNING`) creates the next; `change` reads
and verifies, later updates the users row `WHERE token_version =` the one it
read, revokes all, inserts one; `delete` locks the users row and its sessions
by cascade. Expiry is `Expire`. An account that was deleted is not registered
anew and `status` is always active; the second factor's part of login is one
read here (`SecondFactorRead`) and all of `Mfa`.

`SessionLedger` is the reader's view: a session is opened by a sign-in or
replaces exactly one session that ends in the same step, a change ends
sessions and starts a version, closing leaves none. The refinement maps
`issued` and `parent` from the committed sessions and their requests.

### AccountTokens

`Ask` to `Commit` is `queue_token` under the two requesting endpoints
(lock user, delete unused tokens of the purpose, insert); `Validate`,
`Consume`, `LockUser`, `Sweep` are the two confirmations (validate outside the
transaction, consume with RETURNING, write the user, for a reset delete the
other links). `Prune` is the dispatcher's clean-up. Account deletion, and the
key-share locks of the session inserts, are left to `Sessions`.

### EmailOutbox

A claim, a settlement, a recovery and a clean-up are single statements and
single actions; between them a dispatcher has `item[w]`, the row its claim
returned, and the process may stop (`Stop`), the outcome fail to be written
(`LoseRow`) or the server's answer be lost (`DeliverUnheard`). `Queue` also
deletes the row of the unused token it replaces, `Forget` those of a deleted
account, `Purge` those whose token is old. A dispatcher's start is `Recover`.
Which due row a claim takes first is left open. A claim becomes stale when
its dispatcher is gone (`BecomeStale`), or, at the price of a fault, under a
dispatcher at work (`Stall`): with SMTP timeouts of 10 s that takes a suspended
process or a statement that is kept waiting. A process that starts then takes
the row back and claims it while the first still has it; the settlement of the
first asks only that *some* claim be open (`status = 'processing'`), so it is
void on a settled row and ends a newer claim otherwise. `stalls` counts them.

### Mfa

One backup code stands for a batch of ten: the batch is inserted and deleted
as a whole and codes differ only in which one is used. A WebAuthn response
verifies or the request fails; the sign counter is left out, and so is the
session a registration is bound to. `FinishRegistration` consumes its ceremony
in a statement of its own before the transaction, as the code does;
`BackupLogin` takes the ceremony `FOR UPDATE`, marks the code, deletes the
ceremony at commit. `Earlier` names rows that are there at the start: every
quiescent state with at most one batch of codes. `mixed` is a history variable:
two changes overlapped that were not both registrations.

### Limits

One account and one scope of the category `login_identity`; the other
categories differ in their numbers. `bucket[w]` is the row of window `w`,
`user` the two columns of the lockout, `req[r]` how far a request is and what
it read: it takes its clock when it arrives (`Arrive`), counts in an upsert
that returns the count (`Count`), is refused or goes on to read the users row
(`Enforce`), and after the verification counts a failure in the row as it is now
(`Fail`), or goes by the row it read to clear it (`Succeed`) or be refused
(`RefuseLocked`). `NewPassword` is
a reset or change, which clears the lock. A request that counts may also run
the clean-up. A maintenance pass is `TryLock`, `DeleteBatch`, and its commit or
failure; what it deletes shows at the commit. The clock (`Advance`) moves
between any two statements, but a request is over, by the timeout layer
(`Cancel`), before it is more than `Stall` old.

### Browser

`cookie` is the browser's, `stored[t]` and `shown[t]` a tab's token in
`sessionStorage` and the session it shows. A handler sends a `call`, taking the
cookie and the token along; the server serves it in one `SessionLedger` step
(`Serve`) or refuses it (`Reject`, and as a fault `Refuse`), and the page
handles the answer later (`Answer`), or the failure to get one (`Break`).
Reloading, duplicating a tab or following an e-mail link mounts the page anew;
its calls are then served unheard. A cookie is set and the answer handled in
one step; a call whose connection breaks was served before or never is.
Revocation from another device, expiry, and "revoke" of another session in the
list are `Elsewhere`. Calls that leave the session alone are left out, but for
those that put back the session they captured (`edit`) and the confirmation
that precedes a restore (`verify`).

### PdfPages

A document is a function from object numbers to objects: catalog, tree nodes
with Kids, pages with Parent, Contents, Annots and the attributes set on them
(`attributes`, a function of those that are; `Inherited` adds the nearest of
each that an ancestor has), content streams that draw something of their own or by a resource
name, widgets with appearances, Info. `shown` is the list of pages as a viewer
resolves them. An operation is one action, as it is one synchronous call in
the worker; it returns a new document, which is the next input, alone or
merged with another. A call that returns an error is not a step.
`Watermark` adds a graphics state under a fresh name and a stream that uses
it; `Flatten` turns widgets into forms drawn by name, drops them from the
pages and the form from the catalog, and prunes. What is external is lopdf:
`PageIds` (get_pages), `Pruned`, `Renumbered`, new_object_id and
add_page_contents; `merge` relies on `renumber_objects_with` numbering
consecutively and pages in page order, since it collects pages in a BTreeMap.
Rectangles are nested and named by their size, so that "fits in the media box"
is a comparison; where on the page a mark is drawn, the watermark's font and
the limits on sizes are left out. `extract_text` only reads. `MaxLevels` is the
bound of 64 on climbing the tree; documents are trees no deeper than that
(`DocumentsAssumption`). Deeper ones lose attributes silently in merge, reorder
and crop where rotate refuses. The same assumption has documents `Legible`:
what their pages draw by name their resources have, as PDF requires. The
engine does not look: where content uses a name that nothing stands for,
`unique_name` may take it for a watermark, which that content then draws too.

### Workbench

The variables are the signals of the page (`operation`, `files`, `busy`,
`error`, `downloads`), the object URLs that exist, and the jobs that are not
over with the phase each is in. `Process` reads the files, `Post` starts a
worker and posts, the worker answers, refuses, fails to load or falls silent,
and the page handles what arrives. Handlers see the state of the last
rendering. A worker that was started and could not be posted to keeps its
callbacks (`PostFails`). The document that is followed is the result the user
chooses again as a file.

## 3. Runs

| run | bounds | shows |
|---|---|---|
| `sessions` | 4 requests of any operation, 2 passwords, symmetry; 51,561 states | a session is ended by name once (`SessionEndsOnce`); none is left by a deleted account (`NoOrphanSession`); `token_version` counts every change (`EveryChangeCounted`); a change replaces the password it verified; wait cycles need a deletion or two bulk updates (`LockOrder`); the statements implement `SessionLedger` |
| `sessions_live` | 3 requests, fairness; 28,946 states | every started request is answered |
| `sessions_stale` | as `sessions` | counterexample to `RefreshStaysInVersion` |
| `tokens` | 4 requests, both purposes, fairness; 103,365 states | one open link per purpose; each used once; a reset leaves no other reset link; wait cycles need an ask and a confirmation of one purpose; all are answered |
| `outbox` | 2 messages, 2 slots, 2 dispatchers, 2 attempts, 1 fault, fairness; 969,888 states | one dispatcher has a message at a time, and one more per stall over it; every copy or attempt too many is owed to a fault; "sent" was accepted, "dead" had its attempts; settled rows stay settled whoever writes late; every queued message settles, or a fault strands it until the next start |
| `mfa` | 3 requests, 1 earlier row per table, symmetry; 134,259 states | a ceremony and a code admit one login; MFA stays consistent unless changes are mixed; a code is unused until its login commits; which wait cycles there are |
| `mfa_removal`, `mfa_codes` | 2 requests, 2 earlier rows | counterexamples to `RemovalTurnsOff`, `OneBatch` |
| `limits` | 3 requests, 2 replicas, limit 2, windows of 2 ticks, 2 attempts, locks of 2 ticks, 1 tick of stall, 1 batch of 1 row, 7 ticks, 1 fault, fairness, symmetry; 261,222 states | no window admits more than its limit whichever clean-ups run; no failure is lost; a lock is lifted early only by a new password or by a login that read the row before it; expired counters go |
| `browser` | 2 tabs, 2 calls on their way, 3 sessions, 1 password reset, 1 fault, symmetry; about 2.5 million states | a quiet tab shows only a session it can go on with, and no live session is forgotten, up to the exceptions the properties name |
| `pdf_pages` | 5 documents in different numberings, 2 operations followed, 3 jobs, 2 faults, 2 marks, 3 pages, 2 levels, fairness; 243,272 states | the document handed back is sound, and shows the pages asked for unless a merge drew a page's number; one job runs; no URL leaks; every job is shown or its worker is silent |
| `pdf_merge` | the same documents, 1 operation | counterexample to `MergeKeepsPages` |

Why the bounds are enough to be interesting: every race above needs two
requests about one row; a third makes the row, a fourth interferes (a reset
between a change's read and write, a deletion behind a rotation). Two attempts
separate a first from a last one; the fault falls on either. Two passkeys are
what "last" needs. In `limits` three requests reach a limit of two and one
more, seven ticks are three windows and the time a counter is kept; that its
symmetry does not hide a liveness error was checked on the unreduced 1.7
million states. In `browser` two calls race in one tab or in two, and three
sessions are one, its successor, and one from a sign-in. In `pdf_pages` a
nested tree as deep as is climbed has attributes on each level, and one
operation's output meets every other operation; two faults are what it takes
to fail a post and then that worker.

The passing runs do not check for deadlock of the model: a behaviour ends when
its requests are used up, its time is over or all mail is settled. Database
deadlocks are modelled, and that they are resolved is what the liveness
properties of `Sessions` and `AccountTokens` check.

### Fairness

`Sessions` and `AccountTokens`: weak fairness of each request's own statements
and of the deadlock detector. A request that was started is driven by Tokio
until it is answered; PostgreSQL wakes a waiter when the row is free, and runs
its deadlock check for every wait longer than `deadlock_timeout`. Nothing is
assumed of `Cancel`: requests are answered even if none ever times out.
`EmailOutbox`: weak fairness of each dispatcher's next step, its restart
included (`restart: unless-stopped`), and of a retry's delay passing; none of
expiry, faults or a claim's age. A claim whose settlement failed, or whose
process stopped, is taken back only when some process starts, which nothing
promises: the liveness property is "settled, withdrawn or stranded". Finitely many faults occur
(`MaxFaults`), without which nothing could settle. `Limits`: weak fairness of
maintenance by some replica, whose interval starts passes for as long as its
process lives; none of the clock, of requests, or of the clean-up a request runs by
chance. `Workbench`: weak fairness of all that
may come to a job (it is posted, refused, or its message or event is handled);
none of the user, and a worker may fall silent, which the property allows for.

### Findings

1. `sessions_stale`: a session that commits after the revoking UPDATE's
   snapshot (a login that verified the old password) survives a password change
   or reset, and its refresh issues tokens of the new version.
2. `mfa_removal`: two removals of the last two passkeys both see one left;
   MFA stays required with no passkey, and the account cannot log in.
3. `mfa_codes`: two regenerations of the backup codes leave both batches good.
4. `pdf_merge`: the number of the merged page tree (or catalog) may be that of
   a page, which is lost. `lopdf` is not in the repository; the run assumes of
   it only that numbers are consecutive and new ones follow `max_id`. The
   repository's own test has such a page as the last object but one, and does
   not fail if lopdf writes its documents with a cross-reference stream, which
   is one more object behind it.

### Observations

Exceptions that the passing properties name, each reached in its run:

* `update_profile` (`frontend/src/auth.rs:786`) and `disable_mfa` (`:746`) put
  back the session they captured when they were clicked. When the interval's
  refresh is answered in between, the tab is left with a revoked session
  (`ShownWorks`, "overtaken").
* Of two tabs with one cookie, the one whose refresh comes second is refused
  and shows a session that is gone (`ShownWorks`, "tab").
* A request that fails to post leaves its worker with its callbacks: should its
  script fail to load later, the next job's wait is ended
  (`OneJob`, `NoUrlLeaks`, two faults). `docs/architecture.md:33-34` says that
  answers carry request ids so that the UI can run concurrent jobs; the UI runs
  one and does not compare ids.
* A worker whose promise is rejected sends nothing and fires no error event;
  the page stays busy (`EveryJobShown`, "silent").
* Recovery requeues a claim whatever its attempts, so a message can be
  attempted once more per fault than `docs/authentication.md:69` says
  (`AttemptsNeedFaults`).
* A settlement asks that the row is claimed (`email.rs:330`, `:347`), not that
  the claim is its own: a dispatcher whose claim was recovered while it stalled
  can end the claim of the one that has the message now (`OneDispatcher`).
* Logins that read the users row before a lock are verified in spite of it, and
  a successful one lifts it (`LockHolds`, `early`).

## 4. Proofs

All theorems hold for any set of requests, passwords, messages, slots,
dispatchers, replicas and rows and any bounds; the assumptions are the named
ones in the modules (operations are among those named, `None` is no member of
what it stands apart from, `MaxAttempts` positive, a request's age `Stall`
shorter than a window, `MaxFaults` and the other bounds of the page natural
numbers, `MaxLevels` positive, the ends of a page range unsigned, the documents
that come with a request sound and legible). TLC evaluates them in the runs.

Each module has an inductive invariant, `IInv` (`Held` in `PdfPages`, where the
properties are one already, and `Exact` there and in `Workbench` for what is
shown), which is proved to hold always by one step per
action. It was checked with TLC on the run's instance before it was proved; the
cfg names only what the run is about.

* `SessionsProofs`. `SessionEndsOnce` and `NoOrphanSession` are not inductive:
  that a request which ends a session holds its row until it commits
  (`TargetInv`, `RowLockInv`) is what makes the second one find it revoked;
  that a cascade has locked, or has yet to visit, every session (`CascadeInv`),
  and that no session can be inserted meanwhile because the insert needs the
  KEY SHARE the deletion excludes (`KeyShareInv`), is why none is orphaned.
  `DraftInv` and `SeenInv` tie an open transaction's row to the committed one:
  a change that finds the version it read finds the password it verified,
  and each commit of a change raises it by one (`EveryChangeCounted`).
  `LockOrder`: in a circle without a deletion whoever is waited for walks over
  several sessions (`BlockerIsBulk`), as the others take no second lock, and so
  does whoever that one waits for.
  `Refinement` proves `ImplementsLedger`: begin and lock steps stutter, and
  each `Commit` is one ledger step chosen by the operation.
* `AccountTokensProofs`. `OneLink` is in the invariant with `SweepInv`: while
  a request holds the users row, each token it must delete is locked by it or
  still to be visited, so when it commits its own is alone. `ConfirmInv`: from
  consumption to commit a confirmation holds its token, hence `UsedOnce`.
  `DeadlockNeedsBoth`: asks lock the account and then tokens, confirmations a
  token and then the account, so a circle has one of each, the first waiting
  for the link that the second confirms.
* `EmailOutboxProofs`. `HandInv`: a message may be in several hands, each with
  a claim of its own. The other parts are balances of what is spent and what
  may still be. `HoldersInv`: the hands of a message and the claim to come if
  its row is open (`Again`) are one, and one more per stall, as a hand that
  lets go opens the row at most once. `AcceptedInv`: so it is with the copies
  sent and the hands that may still send one; `AttemptsInv`: with the attempts,
  from the last but one on, and the hands whose failure queues the row again.
* `LimitsProofs`. `GrantInv`: until a counter's time is over it is not behind
  what its window has let through or is about to; a running request is at most
  `Stall` old, so the counter of its window has not expired, and neither
  clean-up deletes it (`TimeInv`, `DoomedInv`). Hence `WindowLimit`. `LockInv`:
  who read the users row after the last lock read that lock, so whoever may
  clear it read it before.
* `MfaProofs`. Locks belong to open transactions and to rows that are there
  (`LocksOfRunning`), rows are named after requests that got that far
  (`NameInv`), and the stages of an operation bound what it holds (`StageInv`).
  `CeremonyInv` says that a login by passkey has deleted its ceremony and one
  by code holds it, and its code from the statement that found it unused;
  therefore no two requests that can still succeed present the same ceremony
  or have taken the same code (`OnceInv`).
  `LockOrder` from `WaitInv`: a request that holds the users row has nothing
  left to wait for unless it removes a passkey; a login waits holding its
  ceremony at most; disabling locks ceremonies before anything a login waits
  for. So a circle without removals has exactly one request that empties
  tables, the others wait for it, and it waits for a ceremony: but then it has
  locked nothing they wait for.
  Given all those, `AloneInv`: while only registrations have overlapped, what a
  change has counted is still true and what it has swept is locked by it
  (`ProgressOf`), so its commit takes the account from one consistent state to
  another. A registration counts under the users row; the others count and sweep
  alone.
* `BrowserProofs`. Both properties speak of quiet moments, so `IInv` says what
  is true of every call on its way. A tab shows what it stored, and a page that
  was mounted anew has no call but its restore (`PageInv`); a call carries what
  its page stored and the browser's cookie, unless it was overtaken
  (`WithInv`), and an overtaken one is about a session that ended or was given
  up (`StaleInv`); a session that does not exist yet is named nowhere, and one
  that a call opened only in its answer (`FreshInv`); what a served call ended
  stays over (`DoneInv`), and a refused one found nothing to end
  (`RefusedInv`). `WorksInv`: what an answer brings, if it comes in time,
  works, and what a page shows works, was ended elsewhere, or is what a call on
  its way has ended; with no call left that is `ShownWorks`. `HomeInv`: as long
  as nothing was lost, refused or overtaken, the session of the cookie is one
  some tab stored and each other live session is in the answer of a call that
  will put it there; with no call left that is `NothingForgotten`.
* `WorkbenchProofs`, the page. Until a second fault the page is busy exactly while one
  job runs, and offers no download meanwhile (`BusyInv`); a job whose post was
  refused is left behind only by a first fault (`UnpostedInv`), and its worker
  failing to load is a second. Hence `OneJob`. An answer therefore finds no
  object URL alive, so those it makes are the ones on offer (`NoUrlLeaks`).
  These hold of any engine: nothing is used of a job's result. That the document it hands
  back is well-typed and sound (`TypeCorrect`, `DocumentSound`), and that the
  pages shown are changed as the job asked and by nothing else
  (`WorkbenchImplementsList`), are the engine's theorems for the operation the
  job asked for.
* `PdfPagesProofs`. `Sound` looks at a document from its root down: what the
  operators collect level by level is right for every page. That is awkward to
  keep while an operation rebuilds the tree, so the proof turns it upside down:
  a part of a document is `Woven` if every page and node in it names a parent
  in whose Kids it is, once and nowhere else, and climbing from a page meets
  the root within `MaxLevels`. `WovenPages` is the bridge: in a woven part the
  walk down the tree (`Leaves`, `PageIds`) finds exactly the pages whose climb
  ends at the root, each once. `SoundWoven` and `WovenSound` say that a document
  is sound exactly if it is woven and numbered 1 to N. An operation then has to
  keep its part woven: rotate, crop, watermark and flatten leave the tree as it
  is and add objects no page is (`Extended`); reorder and merge hang all pages
  under one node (`FlatWoven`); split keeps what its pages climb through
  (`Only`). `PrunedWoven` and `RenumberedGood` do the same for lopdf's part. A
  merge unites documents whose numbers were shifted onto disjoint intervals; it
  is well-typed in any case and sound unless it drew a page's number (`harmed`).
  Recursive functions are shown to exist level by level (`IterationBy`), and an
  induction over levels or over sets of object numbers takes the least number at
  which it would fail, since the prover cannot instantiate the library's
  induction theorems.
  What a page looks like (`Look`) depends on the objects it refers to and on
  what it inherits. That giving all objects other numbers changes nothing of it
  (`CarriedLook`), nor leaving out objects that nothing shown refers to
  (`PartLooks`), together say that pruning and renumbering show the pages the
  tree lists, as they were (`TidiedView`).
* `WorkbenchProofs`, the engine. `PagesImplementList` is the refinement: each
  operation is the step of `PageList` that its request names, or left a page's
  number to another object (`damaged`). To `TidiedView` it adds what working on
  pages of a tree that stays does to one page (`SetLook`, `PaintedLook`) and to
  the others, and then has one theorem per operation: `RotateLists` and
  `CropLists` set one attribute over what is inherited; `WatermarkLists` and
  `FlattenLists` draw by names that were free (`FormNaming`), so that older
  content keeps its meaning; `ReorderLists` and `MergeLists` hang pages that
  carry what they inherited under a new tree, and a merge finds them in the
  documents' order because renumbering is ascending (`AscendingConcat`); for
  `SplitLists`, sifting the kids of every node sifts the pages
  (`LeavesThinned`). The invariant `Exact` adds to `Held` that `shown` is the
  view of `doc` and that a document not damaged is legible: without the latter
  a name could be free in the resources and yet be drawn by.

Only model-checked: liveness (`EveryRequestAnswered` of two modules,
`EveryMessageSettles`, `ExpiredGoes`, `EveryJobShown`), which the prover does
not reach. Every other property of a passing run is a theorem.

## 5. Plan

Done: the server's components first (`Sessions`, `AccountTokens`,
`EmailOutbox`, `Mfa`, `Limits`), then the PDF engine (`PdfPages`), then the
browser around both (`Browser`, `Workbench`), with proofs beside each.

| next | what it will hold |
|---|---|
| `Mfa` | fairness and `EveryRequestAnswered`; the sign counter |
| `PdfPages` | what a merge keeps when the last object is not a page |

## 6. Not modelled

* Deployment and backup scripts: each is one sequence of external commands
  (docker, pg_dump, ln, mv, curl) whose effects the repository does not hold.
* The HTTP layer's routing, validation of input and wording of errors; of its
  handlers `Browser` has the cookies, tokens and refusals.
* Configuration, metrics, logging, the connection pool: no state others rely on.
* Cryptography. Nobody guesses a token in the models: a token is the name of
  its row.
* Geometry and fonts of watermarks, flattened annotations and extracted text;
  the records of the worker protocol; parsing of page ranges but for its
  failing.
* Real time outside `Limits`, and SQL features no statement uses. Of
  PostgreSQL's locks only those a modelled statement takes are modelled, each
  within one module: `queue_token`'s FOR UPDATE on the users row is not composed
  with the sessions' foreign-key locks.
