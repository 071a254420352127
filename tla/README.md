# A TLA+ model of goprox

goprox is one Go binary: a reverse-proxy gateway with password and TOTP login,
one YAML file per user, a small JSON API for a dashboard, and a command line
(`serve`, `user`, `passwd`, `2fa-reset`, `sso`, ...) that edits the same files while the
gateway runs. There is no database and no daemon protocol: the processes meet in
`config/state.yaml` and `config/users/*.yaml`, and the gateway's requests meet in a
handful of mutex-protected maps. Most of what is hard to test in it is therefore about
what happens *between* two reads of the same file, and that is what the modules are about.

## 1. Inventory

| Component | Source | State it keeps | Operations | What makes it correct |
|---|---|---|---|---|
| Config lock and atomic edits | `internal/config/filelock*.go`, `fileutil.go`, `user.go` (`withConfigLock`) | per-path mutexes, `<file>.lock`, the file | lock, reclaim a stale lock, edit, rename, unlock | one writer at a time; an acknowledged edit is never lost; nobody waits for ever |
| Login rate limiter | `internal/rate/rate.go`, `server.go` (`handleLogin`, `handleTwoFAPost`) | failure times per key | `IsBlocked`, `RecordFailure`, `Reset`, sweep | a block holds and ends; the table stays bounded; flooding does not unblock |
| Sessions and two-factor login | `internal/auth/auth.go`, `server.go`, `internal/api` | none on the server (signed cookies) | login, code, refresh, 2FA enrol and remove, logout | a password change revokes; no session without the second factor |
| Gateway state file | `internal/config/state.go`, `main.go` | `state.yaml`: session secret, server and SSO sections | `LoadState`, `PersistServerConfig`, `PersistSSOConfig` | the secret survives restarts; a failed start changes nothing; settings are kept |
| User configuration store | `internal/config/user.go` | services, layout, default service | add, update, remove, layout | IDs, paths, host names unique; new services come last; nothing unrelated is dropped |
| User registry and caches | `internal/config/registry.go` | snapshot of all users, host index, login cache | `Reload`, `EnsureFresh`, lazy load, lookup | readers converge to the files; a removed user stays away |
| Dashboard API | `internal/api/api.go` | - | store edit, then `Reload` | the answer reflects the edit |
| Routing | `server.go` (`Handler` and what it calls), `registry.go` (`Find*`), `auth.go` (route cookies) | route cookies, in the browser | path, host, Referer, route cookie, default service | a request reaches only services of the session's user, and the one that its page, path or host means |
| Reverse proxy | `internal/proxy/proxy.go`, `cookie.go` | - | header, cookie, `Location`, HTML rewriting | what leaves and returns stays inside the service's path |
| Authentication bootstrap | `internal/proxy/bootstrap.go` | - | one redirect carrying a backend token | no redirect loop |
| Process life cycle, TLS files | `main.go`, `tls.go` | listener, certificate pair | start, signal, drain | the pair matches; open requests are drained |
| Backend address checks | `internal/config/selfloop.go`, `host.go`, `paths.go` | - | allow list, self-target test | the gateway never proxies to itself |
| Bandwidth limiter | `internal/rate/io.go` | a token bucket | wrapped `Read` | the library's arithmetic |
| Pages and dashboard script | `internal/web/` | the browser's copy of the services | list, edit, drag | - |
| Command line, terminal | `main.go`, `terminal_unix.go` | - | parsing, prompts | - |

How they meet: requests call the registry (snapshot plus login cache), the session
helpers and the limiters; the API calls the store, which locks the user's file and
renames a new one into place, and then reloads the registry; the command line calls the
same store functions from another process; a ten-second scan reloads the registry;
`serve` and `sso` both read and write `state.yaml`.

Hard behaviours: stale-lock reclaim by several processes; crashes inside the lock; the
separate limiter calls around bcrypt; one request reading the password revision two or
three times; first starts that overlap; answers that arrive in any order; snapshots
swapped out of order; route cookies and redirects of several tabs and several services
that meet in one browser. `PROJECT.json` lists each at its line.

## 2. Modules

| Module | Models | Notes |
|---|---|---|
| `AtomicEdits` | what callers rely on in `withConfigLock` | an edit is applied at once, or rejected |
| `ConfigLock` | `withConfigLock`, `lockConfigFileWith`, `staleLock`, `unlock`, load/modify/rename | one action per file-system call; implements `AtomicEdits` |
| `RateLimiter` | `rate.Limiter`, every method | pure operators on the failure table; no state of its own |
| `LoginThrottle` | `handleLogin` as the limiter's concurrent client | one action per limiter call |
| `Sessions` | the requests of one browser and one account | one action per read of the configuration |
| `StateFile` | `serve` and `sso` over `state.yaml` | one action per read or write of the file; uses the contract of `AtomicEdits` as a mutex |
| `UserStore` | the edits of one user's services, account creation and removal, the operator | one atomic step per edit, by the contract of `AtomicEdits` |
| `Registry` | `UserRegistry`: snapshot, host index, login cache, lazy loading, `ScanLoop` | actions, parameterised by the worker and by where it returns to; no `Next` of its own |
| `Dashboard` | the handlers of the API over `Registry`, the commands and an operator | extends `Registry`; one action per read of a file and per critical section |
| `RouteTable` | which service a path, a host or a route cookie means | pure operators on a configuration |
| `ReverseProxy` | paths, redirects and cookies between browser and backend, the bootstrap's decision | pure operators, extends `RouteTable` |
| `Routing` | the gateway's handlers, the backends' answers, a browser with tabs | extends `ReverseProxy`; one action per request sent, handled and answered |
| `MC*` | instances for TLC | constants and scenarios only |
| `*_proofs` | theorems | `ConfigLock_proofs`, `LoginThrottle_proofs`, `Sessions_proofs`, `StateFile_proofs`, `UserStore_proofs`, `Dashboard_proofs`, `ReverseProxy_proofs`, `Routing_proofs` |

### ConfigLock

A thread is one call of an edit function; threads of one process share `mutex`
(`configLocks`), all processes share `lock` (the lock file) and `file`. The lock file is
the record of what can be observed of it: inode, author, whether the text
`host pid time` has been written, and whether its mtime has passed `lockStaleAfter`.
Inode numbers are reused as soon as no file and no descriptor needs them, which is what
`os.SameFile` in `unlock` must cope with. The stale test is three steps (read, stat,
remove), so the file removed need not be the file judged. Two histories say what a thread
could not know: `slow` holds the threads whose lock grew stale while they lived, and `stray`
says that a lock file went or came unseen by its owner (a removal of one in use, the gap
between `unlock`'s stat and remove, an inode number that came back). A services edit
(`AddService` and its siblings) loads twice, an auth edit (`UpdatePasswordHash`,
`UpdateTOTPSecret`) once. `file` holds, per section of the YAML document, the set of
edits it contains: a lost update is a missing element. The abstraction leaves out what
the edit writes. `os.Remove` of a stale lock is assumed to succeed (see section 7).

### RateLimiter and LoginThrottle

A failure is its age in ticks, at most `Window`. Go iterates over a map in any order, so
an operation that evicts returns a *set* of tables, described by what the three eviction
loops have in common (`Victims`) rather than by the loops. `LoginThrottle` keeps the
mutex per call and not per request, as the code does. The second limiter
(`totpLimiter`) has the same client structure and the same type.

### Sessions

The server keeps nothing, so the state is the account, the browser's two cookies and
the requests on their way. A token carries the revision it was signed for and, as
ghost fields, which password its holder proved, whether a code was due and given, and
whether the account changed under a request the token descends from (`straddled`).
Login, code, 2FA change, refresh and logout are pieces of requests that overlap and
whose answers arrive in any order or never. `Passwd`, `ResetTwoFA` and `Toggle` are the
command line. The signature scheme is taken as sound: a token is exactly what the
server signed. The setup cookie of the enrolment (its secret and its expiry), cookie
domains and page rendering are left out. `GetUserConfigForLogin` is an atomic read of
the file; its cache belongs to the registry.

### StateFile

Gateways and SSO commands begin with `LoadState`, whose stat, create, read and
generate-and-write steps take no lock; the two `Persist` functions read and write under
the lock but `LoadState` does not respect it. The server section is represented by its
port, the SSO section by two settings named after the command that last set them.
Three history variables say when the properties may fail: `clobbered` (a writer
replaced a file other than the one it had seen), `crossed` (an SSO command replaced a
change it had not seen, or was computed from a copy older than the lock) and `due` (the
settings the successful commands add up to).

### UserStore

Only what the rules of the store relate is kept of a service: ID, path, host names,
order, and whether `LoadUserConfig` accepts its path (`ok`). An ID is a slug plus the
numbers appended to make it unique, so that the ID generated for a second `web` and the
slug of a service named "web 2" can be the same. An edit loads the usable services,
changes them and writes them back (`Save`); the rest of the raw document stays, which is
how a `default_service` can outlive its service. A request that is rejected is no step.
Requests name any service because pages may be old. A layout gives each service any
order (`UpdateServicesLayout` stores what it is sent, and `GroupServicesByCategory` copes
with ties), from `MinOrder..MaxOrder`, the integers of the machine: one more than the
greatest order may wrap. The operator
only sets `default_service` and breaks or repairs a path: an operator can also write two
services with one ID, and then nothing is promised.
The rest is ghost: `born` numbers services, `meant` is the one the default was set for,
`dropped` says that an edit wrote the file without a skipped service, `placed` that the
services born before it stand where a layout, or an order that wrapped, has put them.

### Registry and Dashboard

A worker is a goroutine: one per request, and `ScanLoop`. `pc` says where it is.
`Reload` lists the directory, loads account after account and swaps map and index in one
critical section; `GetUser` looks into the map under the mutex and, when it misses,
loads the file and inserts the record into whatever map is current by then;
`GetUserConfigForLogin` stats, compares, parses and stores. All of these are separate
steps, so any of them can be overtaken by a scan, by another request or by a writer.
A version of a file is its number among all writes plus what is in it; `clock` is the
file system's, in ticks of its timestamps, and two writes may share a tick, which is
what the login cache cannot see. (All files have one size: the cache compares sizes too.)

`Dashboard` gives the workers something to do: a request checks its session against the
login cache, finds the account, checks a host name against the snapshot (`HostOwners`),
edits the file, reloads and answers. The edit is one step, by `ConfigLock`. `goprox user`,
`passwd`, `del` and an operator with an editor change the same files. What else may make
a handler refuse (a body, a lock time-out) is `Refuse`, at any place where it may happen.
The histories (`reused`, `behind`, `overlap`, `gone`, `failed`, `ondemand`) say when a
property may fail, and each is about one race that the code leaves open; they do not
influence the steps.

### RouteTable, ReverseProxy and Routing

A path is the sequence of its segments, with an empty last one for a slash at the end;
"is `p` or begins with `p/`" is then `IsPrefix`. The lookups return a match (user,
service, rest of the path, legacy form) or `None`, and the handlers an outcome or `None`
for `return false`; `a ?? b` is the next handler in line, so that the order in which the
code tries them can be read off `Mux`, `HandleBare`, `HandleAPI` and `HandleLogin`. `MuxPath` is
what `net/http`'s mux does before: it cleans paths, and adds a slash to `/proxy` and `/api`.
`OwnPages` are those no backend is asked for (`/favicon.ico`, `/api/services`, the 2FA pages);
`handleOwnPage` says where they lead a browser whose account has no second factor. A service keeps
what the decisions depend on: path, `root_absolute`, `websocket`, host names,
`backend_path`; and what its backend does: whether it wants a cookie that its start
token earns (`guarded`), for which path it sets that cookie, whether it redirects a path
without a final slash.

In `Routing` a tab asks for something that its document offers (links relative to its
base or absolute, forms, scripts, images, upgrades) or that is typed; the gateway
handles the request with the cookies it was sent with; the answer comes later, sets and
clears cookies, and may redirect. Meanwhile other tabs do the same, services are changed
(`Reconfigure`), and the session ends. `flight` also remembers where a backend meant to
send the browser (`meant`), also across a redirect of the mux, and `out`, `late` and `since` remember the last logout and
whether a route cookie has come after it was asked for. Sessions are names of users here:
what makes them valid is in `Sessions`. The browser is modelled from the standards that
the code relies on: cookies by host and path, a Referer without its path for other hosts,
`GET` after a redirect.

## 3. Runs

| Run | Question | Instance | Size |
|---|---|---|---|
| `lock_safety` | Is the lock exclusive, is an acknowledged edit kept, whom may a slow owner overlap with, does the protocol implement atomic edits? | four edits in three processes on two hosts, one crash, one thread whose lock ages, two inodes | 1.34 million states |
| `lock_liveness` | Does every edit return? Does the lock of a dead owner go away? | three edits in two processes, one crash, one ageing lock | 24 600 states |
| `lock_race` (violation) | Is the lock exclusive without the assumption? | the same processes on one host | a counterexample |
| `login_throttle` | Do blocks hold and end, is the table bounded, how far can a key overshoot? | three keys, a table of two, two failures, a window of two ticks, two requests | 25 500 states |
| `sessions` | Are sessions revoked, is the second factor asked, who may change it? | two requests, two passwords, a session of two ticks renewed in its last | 3.3 million states |
| `sessions_revocation` (violation) | Does a password change revoke every earlier session? | as above | a counterexample |
| `state_file` | Are secret, settings and port kept? | two gateways (one with `--port`), two SSO commands, two ports, two secrets, read errors | 1.16 million states |
| `state_secret` (violation) | Does a restart always find the secret of the running gateway? | as above, no read errors | a counterexample |
| `user_store` | Are IDs, paths and host names unique? Does a new service come last? Is the default service the one that was meant? | two slugs, one the suffixed form of the other, two custom paths, one host, three services at a time, three additions, orders from -1 to 2 | 725 000 states |
| `dashboard` | Is a revoked session refused, does the answer show the edit, is an account found, is the host index right, are claims of a host name checked, does the snapshot stay current and converge? | two accounts, one host name, two requests, one disturbance per scenario (six scenarios), two clock ticks | 201 000 states |
| `routing` | Who is reached, does an asset stick to its page and a bare page to the default service, does a logout forget, do redirects return and end? | twelve scenarios: two users, four services, two hosts, two tabs, two or three things to ask for in each | 245 000 states |
| `user_store_skipped` (violation) | Does a skipped service stay in the file? | as above | a counterexample |

Why the bounds are enough to be interesting: the lock race needs a dead owner and two
waiters, so three processes; inode reuse needs two numbers; the mutex only matters with
two threads in one process (`g1`, `g2`). A slow owner (`Lasting`) that finds its successor's
lock when it releases, and a third process that could enter if it removed that, need three
processes too. A table of two with three keys evicts at every
third key, with two failures needed for a block it holds unblocked, blocked and mixed
victims. A straddling request needs one request and one change; the second request
adds late answers and refreshes. Two first starts need two processes; a start that
cannot bind needs two gateways that want one port. A generated path that is taken needs
a custom path and a suffixed slug that agree, so three services. Four orders for three services
leave ties, gaps, negative ones and the greatest integer, after which an order wraps. Bounds that cut counters:
`Inodes`, `MaxRev` (passwords), `TTL` (ticks), `Window` (ages saturate at it),
`MaxSecrets` (generated secrets), `MaxServices`, `MaxAdds`, `MaxClock` (ticks of the file
system's clock), and what a scenario allows: commands, failing reads (`faults`), expiries of the
scan interval (`lapses`), what each tab may ask for, each thing once (`asks`), and configurations
to come (`later`). A race in `Dashboard` needs two actors that hold versions of one file
and a third that changes it, so two requests next to `ScanLoop` and one command; two accounts
for a contested host name. In `Routing` a stale Referer, a late cookie and a second
service each need two tabs, and another user's cookie a second user; four services are
one below another (`/lab`, `/lab/doc`) and one at `/`, one with a `backend_path` that is a
directory, one with a file, two with none. A scenario fixes what is asked for, not in which order or in
which tab. Deadlock is checked in every run but `routing`, where the user may stop asking;
`ConfigLock` ends in the stuttering step `AllReturned` once every edit has returned or died,
and in `Dashboard` `ScanLoop` goes on.

Every property of a passing run has a mutant in `PROJECT.json`: a plausible bug
in one definition (a host name not compared, a section rebuilt from scratch, a
revision not checked, a port recorded before the bind) that makes it fail.

### Fairness

* `ConfigLock`: threads are scheduled (`WF` of each thread's steps), time passes
  (`WF` of `AgeLock`), and a waiter that comes back to the deadline test again and again
  finally finds it passed (`SF` of `TimeOut`): the deadline is fixed before the loop
  and `time.Now` only grows. Nothing obliges a process to crash, and nothing obliges a
  waiter to win: `EditsReturn` says that the edit returns, perhaps with an error.
* `LoginThrottle`: the clock ticks, and a request that was let in gets its answer
  (bcrypt terminates). No request is obliged to arrive.

* `Dashboard`: a goroutine that can take a step does (`WF` of `Step`), `ScanLoop`'s ticker
  among them. Nobody is obliged to send a request, run a command or edit a file.
* `Routing`: a request is handled and an answer arrives (`WF` of `Deliver`, and of `Route`
  with its `ENABLED` written out in `Handled`: every request has an answer). The user is not
  obliged to ask for anything, and redirects are followed at once, as browsers do.

The other specifications state safety only and assume no fairness.

## 4. What the runs show

* Until the lock is raced (at most one stale lock removed, no living owner older than
  `lockStaleAfter`) the lock is exclusive in spite of crashes, unstamped lock files,
  reused inodes and time-outs, and no acknowledged edit is lost.
* An owner that does outstay `lockStaleAfter` may overlap with whoever took its lock, and
  nobody else: however many locks age and are removed, two edits overlap only if one is such
  an owner's (`OnlySlowOverlap`). This is what the inode comparison in `unlock` is for
  (`filelock.go:43`): without it, the slow owner would remove its successor's lock and let in
  a third. Where the comparison cannot help (`stray`) nothing is claimed.
* A blocked key is let off only by the clock, by a successful login for it, or in a
  table full of blocked keys; a newcomer's failure always counts; being turned away does
  not prolong a block; concurrent requests exceed the budget by at most one each.
* A session that did not straddle a change of the account belongs to someone who proved
  the current password; one that was due a code has had one; 2FA is changed only by
  such a session.
* Until somebody replaces an unseen `state.yaml`, the secret, the recorded port and
  the acknowledged SSO settings are kept.
* Through any sequence of edits, also from old pages, no two services of a user collide;
  a service added since the last layout is ordered after all that were there before, whatever
  orders a layout has sent, while an order can still be counted up (`AddedComeLast`); and a default service in effect is the one that was meant, unless an edit has dropped
  a skipped service: then its ID may be taken by a new one that becomes the default.

* A request that begins after a password change is refused with an older session although
  other requests fill the login cache, unless a file was written twice within a tick.
  The answer to an edit shows it, unless a scan that had read the file before swaps
  later. An account that exists is found. A host is routed only to a service without a
  rival in the snapshot, and taken from another only if that one's file was not what
  the check saw. A snapshot that is current, and threatened by no older read, stays so,
  and whatever overlapped it converges.
* A request reaches only the current services of its session's user, whatever path, host,
  Referer and route cookies say. Assets and API calls of a page under `/proxy/` stick to its
  service, whichever was visited since; a bare page goes to the default service unless a
  `root_absolute` one claims it. A logout leaves no route cookie behind unless an answer
  was still on its way. A backend's redirect arrives where it was meant, at a service at `/` by way of the
  mux, and redirects come to an end, apart from two awkward kinds of backend and pages of a
  backend's own below `/proxy/` (below).

### Findings

1. `filelock.go:54`: the stale file is judged and then removed by *name*. Of two
   waiters that judged the same dead lock, the slower removes the fresh lock the faster
   one has created; both edit (`lock_race`). The comment on line 17 promises "an exclusive lock".
2. `server.go:121`: the cookie is signed for the revision read at signing time. A
   request that straddles `goprox passwd` obtains a session for the new password with
   the old one (`sessions_revocation`); the comment on line 101 says that a change
   revokes all previously-issued sessions.
3. `state.go:102`: `EnsureState`/`LoadState` create and write without the lock. Two
   overlapping first starts leave a gateway signing with a secret that is not on
   file (`state_secret`); `state_test.go:35` says a restart must reuse the secret.
4. `user.go:557` (and 618, 747, 785): an edit writes the services it has *loaded*, and
   `LoadUserConfig` loads none with an unusable path. A service skipped because of a typing
   mistake disappears from the file with the next edit of any other
   (`user_store_skipped`); line 315 says it is skipped so that the operator can fix it.

Also seen, without a run of its own: two crossing `goprox sso` commands undo each other,
since `runSSO` computes the new section from a copy read before the lock (`main.go:461`,
although `main.go:445` says a requested change must never silently become a no-op);
`AckedSettingsKept` therefore excludes `crossed`. A read error inside `Persist*`
counts as an empty document (`state.go:189`) and drops the other sections;
`clobbered` covers it. "Only remove the file we created" (`filelock.go:43`) is not kept when the
file is replaced between the stat and the remove, or has got the same inode number; `stray`
covers it. A layout's `order` is stored as it is sent (`user.go:780`), so services may tie, and the
dashboard then shows them as they follow in the file (`user.go:843`); only a service added later
is ordered after all others, and not even that after the greatest integer, which wraps. And around routing:

* `joinBackendPath` (`proxy.go:720`) cleans the path, which takes a final slash away: a
  backend behind a `backend_path` that redirects `/x` to `/x/` is asked for `/x` again, for ever.
  `Awkward` excludes such services from `RedirectsReturn` and `NavigationEnds`.
* `bootstrap.go:15` says of the guard that "it can never loop". It does not when the token's
  cookie goes out again; a backend that sets its cookie for its own `backend_path` gets it
  re-rooted to a path the browser is not on, answers 401 again, and the token is
  appended again. `Awkward` excludes this too.
* A bare page of the default service has no prefix in its Referer, so its assets go by the
  route cookies: to the service visited last in any tab, if that is another one.
  `StickToPage` therefore speaks of pages under `/proxy/`.
* A `/proxy/{service}/...` page of the legacy form is taken for a page of a user named
  `{service}` by `matchRouteForUser` when it comes as a Referer; only the route cookie saves its
  assets.
* `validLoginNext` accepts paths under `/proxy/` and virtual hosts only, so the `next` of a bare
  page, which `Handler` itself puts into the redirect (`server.go:288`), is dropped after
  the login.
* A redirect of a backend to a page of its own below `/proxy/` is left as it is
  (`proxy.go:474`), as if it had its prefix already: the slash redirect of `/proxy/ann/doc/proxy/x`
  leads to the gateway's `/proxy/x/`, which is not found. `RedirectsReturn` excepts such pages
  (`Alike`); a scenario of `routing` asks for one.

## 5. What is proved

TLAPS checks these for every value of the constants that satisfies the named
assumptions. Each proof has the usual shape (initial states, one step per action, and the
consequence), from an inductive invariant:

* **ConfigLock** (`IInv == TypeOK /\ (Unraced => LockInv)`). `LockInv` says that a
  living thread past `open` owns the file at the path (`OwnerHasLock`), that before the
  first removal a thread about to reclaim faces the lock of a dead process
  (`JudgedDead`), that an old lock belongs to a dead process (`AgedDead`), and that
  what a living thread has loaded is still what the file says (`ViewFresh`).
  Exclusion alone is not inductive: it is a consequence of there being one author of one
  lock file. Theorems: `TypeCorrect`, `Exclusion`, `NoLostEdit`, and
  `Refinement`, which maps `Save` to `Apply`, the failing actions to `Reject` and every
  other step to a stutter. `SlowOwnersAlone` assumes nothing of `removals` or `slow`; its
  invariant (`SlowInv`) says, until `stray`, that a living owner that is not slow has its lock
  (`PromptHasLock`), that what a thread is about to unlink is its own (`AtUnlinkOwn`), and that
  the lock that took the place of a living owner's has another inode (`SuccessorDiffers`);
  `OldIsSlow` says whose lock can be old at all. The comparison in `ReleaseStat` is what keeps
  `AtUnlinkOwn`.
* **LoginThrottle**: `Bounded` (the table never exceeds its capacity: a cardinality
  argument about `Victims`) and `Overshoot` (a key collects at most
  `MaxFailures - 1 + Cardinality(Handlers)` failures, counting those under way; the
  inductive invariant counts handlers past the check together with failures stored).
  `TypeCorrect` includes that the failures of a key stand in the order of time
  (`AllOrdered`), so that `Live` drops exactly the expired ones (`LiveFresh`). From this
  follow `Accumulate` (the protected key is never a victim, `ProtectedStays`) and
  `BlocksHold`: a new key brings the table to one above its capacity, so one key goes, and it
  is a blocked one only if all others are blocked (`OnlyBlockedLeft`).
* **Sessions**: `TypeCorrect`, `Revocation`, `FactorChanges` and `SecondFactor`. The invariant says of
  every copy of a token, in the jar or in a request at any stage, that unless it
  straddled a change its revision is that of the password its holder proved; a request
  past its check has proved the revision the account still has. `SecondFactor` adds what a
  token says of the second factor, which signing, age and changes of the account leave
  alone (`HeldInv`).
* **StateFile**: `TypeCorrect`, `SecretKept`, `SettingsKept`, `PortKept`. The invariant
  relates each process's copy, what it saw, and the file at each step between the two.
* **UserStore** (`Inv`): `TypeCorrect`, `Unique`, `NewComeLast` and `DefaultIsTheOneSet`, for
  any slugs, custom paths, orders and bounds. `Good` is what every set of services in the file
  is, and each edit is shown to lead from good sets to good sets; besides the checked
  properties it says that there is a greatest order (`GreatestInt`). That the search for a free ID
  ends (`FreshIsFree`) is a counting argument. `NextOrderIsLast` is the step of `NewComeLast`, and
  `Placed` the invariant. `Tracked` carries the default service through the edits.

* **Dashboard** (with `Registry`), for any accounts, hosts, requests, commands and failures.
  `TypeCorrect` rests on `Typed`: besides the types, that a record about to be cached is
  there (`Stored`) and that `Reload` returns to one of its callers (`Returning`). What one
  step does to the control, the caches and the files is said once (`HandleMoves`,
  `ReloadMoves`, `AdminMoves`, collected by `NextKinds`), and the rest is argued from that.
  `SnapshotStaysCurrent` needs no more. `IndexStaysAgreed`: a host's owners depend on the
  record of each owner alone (`OwnersLocal`), so that what `loadUser` inserts can disturb
  the index only about accounts that are marked as such. `KnownUsersFound`: a request that
  has found its account goes on with one that exists or was removed meanwhile
  (`Alive`). `ClaimsAreChecked`: until it edits, a request has seen every claim of its host
  but those of accounts that are behind (`ClaimsSeen`). `RevokedAreRefused` has the
  strongest invariant (`RevokesInv`): what is in the login cache, or on its way there, under
  the mtime the file has now is the file (`Fits`), unless two versions ever
  shared an mtime; so a request with a session of a replaced password meets only
  records with a newer one (`Refuted`). `AnswersShowEdits` (`ShowsInv`): from a handler's
  edit on, unless somebody who had read the file before finishes after it, the file, every
  copy of it that a worker holds, and, once the handler has reloaded, the snapshot are that
  version or a later one (`Shows`). It is not enough to say so of the snapshot: what others
  are about to put there is as much a part of the invariant. That anybody's copy is the
  file (`Copies`) and that versions count up (`Versions`) carries it through the steps of all
  the others.
* **ReverseProxy** (with `RouteTable`): what the lookups and the rewriting return, for any
  registry and any paths. Every lookup returns `None` or a match with something left of
  the path, no path is ever empty, and every Location and cookie path stays one. Two
  theorems are about redirects, the kernel of `RedirectsReturn`. `StrippedComesBack`:
  what `joinBackendPath` adds is what `stripBackendPath` takes, for a `backend_path` that is a
  directory, a file or nothing. It rests on what `path.Clean` keeps of a path (`SegsConcat`,
  `SegsWhole`, `SegsTrim`), and shows that `path.Clean` loses no more than a final slash.
  `RedirectComesBack`: if a backend redirects to the page it was asked for, or without a
  `backend_path` to that page with a slash at its end, what `rewriteLocation` makes of this is
  looked up as the same page of the same service. The danger is another service of
  the user whose path is longer; `SamePage` shows that what comes before the page's service
  for the one path does so for the other. The hypotheses are what the code ensures or
  what is excluded on purpose: service paths have no empty segments (`ValidatePath`,
  `user.go:162`) and are all different (`NoCollisions` of `UserStore`); a `backend_path` is
  not normalised by the code, and is assumed without empty segments but a last one; a service
  at `/` has a prefix with a slash at its end, so that its redirects have two in a row and cost
  one more redirect by the mux; and a page of the backend's own under `/proxy/` is
  left alone by `rewriteLocation` (`proxy.go:474`), so it does not come back.
  Facts about sequences of any length are proved from sets of naturals
  (`SetInduction`), which needs no induction theorem with an operator as a parameter;
  for this `Clean` is a recursive function (`KeepsExists` says that there is one).
* **Routing**: `AnswerFacts` says of all handlers that a request is passed on, forwarded to a
  current service of the session's user, or answered without a backend, with an answer that
  is typed. `Own` is such a match; every lookup on behalf of a user returns one or `None`,
  every handler a `Proper` outcome or `None`, and `FallThrough` carries this through the chains.
  `TypeCorrect`: `TypeOK` and that an answered request has its answer (`TypeInv`); the least
  obvious part is that every route cookie is the prefix of some service's pages, whoever set
  it. `ReachesOwnServices` follows. `SticksToPage` and `DefaultStays` walk through the handlers
  for bare paths once more (`BareMux`, `BareStart`), now with the conditions under which each passes
  a request on: the Referer of a page comes first (`RefererFirst`), and for a path that looks
  like a page only a `root_absolute` service comes before the default one
  (`RootAbsoluteForwards`, `DefaultComes`). Both are about the gateway's own host: the proof
  showed that `Bare` has to say that no service has taken that host for itself, since
  the virtual host would then come first. `ForgetsOnLogout` rests on `LogoutInv`: as long as no
  route cookie has come since, the cookies that a logout under way has shown, and then
  those its answer clears, are all there are (`Covers`).

Assumptions are those declared in the modules (`KeysAssumption`, `ProcOfAssumption`, ...)
and are evaluated by TLC in the runs. Those of routing: users and segments are strings, no
user or file name is empty (`ServicesAssumption`, `SegmentsAssumption`), scenarios name
services and users that exist (`ScenariosAssumption`), and `None` is none of the values it
stands beside (`NoneAssumption`).

Only model-checked: the liveness properties (`EditsReturn`, `DeadOwnersLockReclaimed`,
`BlockEnds`, `Converges`, `NavigationEnds`), which are outside the prover;
`RedirectsReturn` as an action property of `Routing`, of which the two theorems above are the
kernel; and the refutations.

## 6. Plan

The components with control of their own are modelled, and every safety property that
a passing run checks is proved but `RedirectsReturn`. What is left is to prove that one for
every scenario: it needs an invariant that relates `meant`, the request that follows and
the configuration it was made under, with the exceptions that `RedirectComesBack`
names, next to what the bootstrap's cookie, the mux and the virtual hosts do. In `Routing`, the
2FA detour of a login could be added.

## 7. Not modelled, and why

* A stale lock that cannot be removed (a directory that became read-only): the loop of
  `filelock.go:53` then spins without looking at its deadline. The directory was
  writable when the lock was made, and the model would only restate the loop.
* The certificate pair (`tls.go:128`): two writes in a row with no other actor. The drain
  (`main.go:687`) is `net/http`'s; a request that the exit cuts off is a crash, which
  `ConfigLock` and `StateFile` model.
* In routing: what `/api/services` and the 2FA pages do besides leading somewhere (they are in
  `Dashboard` and `Sessions`), the detour of a login with a second factor, headers other than
  those that decide, HTML bodies, compression, how a start token is read from a file or a command.
* DNS-dependent address checks, bandwidth shaping (`golang.org/x/time/rate`), page
  rendering, argument parsing and terminal input: data transformations or library
  behaviour with little control of their own.
