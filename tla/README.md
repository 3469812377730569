# A TLA+ development of keylatch

keylatch is a credential vault for machines on which AI agents run. It keeps
secrets encrypted in a backend, hands them out under policies, grants, human
approvals and scoped gateway tokens, and logs every use in a chained audit log.
Its Go code lives in `src/internal`; most of its state is in files under
`~/.keylatch` which several processes (CLI calls, the gateway, the desktop
sidecar, `keylatchd`) read and write at the same time. That is what this
development is about: which steps of which processes may fall between which
others, what a crash or a failed write leaves behind, and which promises of the
code survive it.

The modules are TLA+ specifications checked with TLC on small instances. Where
a promise is worth it, TLAPS proves it for every value of the constants.
`PROJECT.json` lists the components, the runs, the source lines behind every
definition, the hazards and the theorems.

## 1. Inventory

| Component | State it keeps | Operations | Talks to |
|---|---|---|---|
| Keyring (`internal/crypto/keyring`) | `keyring.json`: terms, wrapped DEKs, one nonce counter per term; per process a copy, the unwrapped DEKs and a nonce lease | Open, ActiveDEK, NextGCMNonce, RotateTerm, RotateKEK, DestroyTerm | file backend, `kek`, `envelope` |
| Crypto primitives (`internal/crypto/{aad,argon2,envelope,jcs,kek}`) | none | seal, open, derive, canonicalise | keyring, file backend, audit |
| File backend (`internal/backend/file`) | one encrypted file per secret with two sidecars, a manifest, version files | Get, Set, Delete, List, versions | keyring, vault |
| macOS keychain (`internal/backend/keychain`) | the unlock item, a keychain file, a manifest item, a file lock | Init, Get, Set, Delete, ACL repair | vault, setup, doctor |
| Other backends (`internal/backend/*`: 1Password, Bitwarden, Vault, cloud stores ...) | the remote store; item caches and a cached session in the process | the same interface | vault |
| Vault and versions (`internal/vault`) | `versions.json` per secret name, version payloads in the backend | RotateValue, Rollback, DestroyVersion, Get, Set | backend, audit, cli |
| Vault identity (`internal/crypto/kek`, `internal/bootstrap`) | the identity file, or an item of the OS keyring and a reference to it | bootstrap, load, migrate | keyring |
| Setup and config (`internal/cli/setup_cmd.go`, `internal/config`) | `config.json` | setup, config set | bootstrap, backends |
| Agent guards (`internal/guard`) | hook entries in the settings of other programs | install-guard | user's agents |
| Gateway tokens (`internal/gateway/token`) | `tokens.json`, one append-only use log per limited token, lock files | Mint, Verify, Revoke, List | gateway handler, runner, cli |
| Approvals (`internal/gateway/approval`) | one signed JSON file per request, one `.used` marker | RequestNew, Approve, Deny, ExpireOldPending, Verify, PolicyChecker | gateway, ui, cli |
| Grants (`internal/grant`) | `grants.json`, one use log per limited grant | Create, Revoke, Find, List | runner, cli, gateway |
| Gateway handler (`internal/gateway`) | routes, the lock flag, copies of a credential | one HTTP request end to end | token, policy, budget, vault, broker, audit, upstream |
| Gateway process (`internal/cli/gateway_cmd.go`, `internal/gateway/pid*.go`) | the PID file, a bound port | up, down | operating system |
| Broker (`internal/broker`) | in-memory cache of exchanged tokens, live grants, the locked flag | Exchange, Revoke, RevokeAll, OnVaultLock | vault, provider APIs, audit |
| Budget (`internal/budget`) | fixed windows of request and cost counts | CheckAndRecord, Reset | gateway handler |
| Policy (`internal/policy`) | rule files | Check, actor and pattern matching | gateway, runner, mcp |
| Audit log (`internal/audit`) | `audit.jsonl` with a sequence number and an HMAC chain, rotated files, retention | Append, rotate, VerifyChain, sweep | everybody |
| Runner and runtime (`internal/runner`, `internal/runtime`, `internal/sandbox`) | the child process, its environment, a minted token | run, call | grant, token, policy, vault |
| Agent sessions (`internal/llmcontext`, `internal/cli/launch_cmd.go`) | the ticket key, tickets in environments, process groups | launch, classify | every command |
| Token minting (`internal/cli/mint_cmd.go`, `internal/policy/mint`) | a token at GitHub | mint | policy, broker strategies, audit |
| Trust (`internal/trust`) | open roots, wrapped keys | Resolve, ResolveAll, Wrap, Unwrap | keyring, OS keystores, SSH agent |
| Connections (`internal/connections`, `internal/cli/cmd_connect.go`, `internal/ui/api`) | a handful of store entries per connection | connect, disconnect, test, edit, rotate, clear | vault |
| UI server (`internal/ui`) | bootstrap token, session, failure counters per address, receipts ring | login, API calls, streams | vault, approvals, audit |
| Sidecar (`internal/sidecar`) | subscribers and their bounded buffers, IPC connections | Subscribe, Publish, Unsubscribe, Stop, request/response | desktop app |
| Team (`internal/team`) | roster, invite key, break-glass counters, signed bundles, cached CI keys, export buffer | sync, verify, open, export | vault, audit, policy |
| MCP server (`internal/mcp`) | connections, nonces, a limiter, a bearer session | tool calls | vault, policy, gateway |
| Proxy (`internal/proxy`) | local CA, certificate cache, open tunnels | intercept, forward, add credentials | vault, policy |
| Masking (`internal/masking`, `internal/gateway/redact`) | none | redact, label | gateway, mcp |
| Doctor (`internal/doctor`) | none of its own | thirty-five checks, repair | everybody's files |
| Other commands (`internal/cli`, `cmd`) | none of their own | one command per invocation | all of the above |
| Registry, telemetry, paths, agent, canary, daemon, store, share, metrics, manifest | templates, detection results, counters | small helpers | cli |
| Desktop (`src-tauri`), web UI (`web`), workers (`services`), agent guards (`contrib`) | client-side | presentation | ui, sidecar |

Behaviours that are hard to test here: read-modify-write of shared files by
several processes, with and without a lock; two locks taken in two orders; state
copied from a file and used after the file changed; a write that reached the
disk although its caller saw an error; one-time and limited-use permissions
under concurrent use; revocation racing with use; caches that outlive a lock;
sequence numbers and HMAC chains kept per process while the file is shared.

What makes the parts correct, in the order in which it matters:

1. *Keyring*: no nonce twice, counters never go back, one active term, sealed
   values stay readable, destroyed keys stay destroyed, calls return.
2. *Permissions* (tokens, approvals, grants): never more uses than allowed, a
   revocation is never undone, only what a human saw is served.
3. *Vault versions and file backend*: no version number twice, a destroyed
   version stays destroyed, a failed write leaves the old or the new value.
4. *Broker*: what was cached before a revocation or a lock is not served after
   it, no caller's token is zeroed under it, the cache keeps its bound.
5. *Audit log*: no entry lost that a caller was told of, damage to the chain
   stays where a write failed, files stay linked.
6. *Gateway handler*: a route with a secret never goes upstream without it, in
   no window more requests than the budget, no copy of a credential left.
7. *Commands*: the child of `run` has no credential it should not have, exit
   codes are true, a token that was minted and not delivered is revoked.
8. *Sessions and team*: an agent session is recognised and nobody else is, one
   owner, limits of break-glass access, decisions from bundles and keys in force.
9. *Services*: limits hold under concurrent requests, events are neither lost
   uncounted nor repeated, credentials go where their route says.
10. *Set-up*: the identity that opens the vault is never lost, "done" means that
    the backend works, the user's own settings survive, doctor is right.

## 2. Plan

The order follows the list above: what protects keys first, then what decides
whether a secret may be used, then what stores it, then what records its use,
then the commands and services around it.

| Module | Models | State |
|---|---|---|
| `Keyring`, `KeyringProofs` | nonces, leases, terms, KEKs, two locks | built and proved |
| `GatewayToken`, `Grants`, `Broker`, `PermissionProofs` | tokens.json, grants.json, use logs; the cache of provider tokens | built and proved |
| `Approval`, `Consent` (proofs in `GatewayProofs`) | approval records; the abstract promise they implement | built, refinement proved |
| `AuditLog`, `AuditLogProofs` | chain, rotation, retention | built and proved for one process |
| `VaultVersions`, `FileStore`, `Keychain`, `VaultIdentity`, `StoreProofs` | versions of one secret, flat layout, cipher migration, keychain, identity | built and proved |
| `RemoteStore`, `RemoteProofs` | password managers and secret services | built and proved |
| `GatewayRequest`, `GatewayProcess`, `AgentSession`, `GatewayProofs` | one request end to end, with its policy and budget; the process; launch | built and proved |
| `Setup`, `RunCommand`, `MintToken`, `BwSession`, `SignedBundles`, `CiIdentity`, `UiServer`, `ForwardProxy`, `Team`, `TrustRoots`, `ServiceProofs` | commands and services | built and proved |
| `GuardInstall`, `EventBuffers`, `McpServer`, `Doctor`, `Connections`, `InterfaceProofs` | installing the guard, buffers of events, the MCP server, diagnosing, connections | built and proved |
| `Masking` (proofs in `GatewayProofs`) | redaction | built and proved |

`MC...` modules hold the instances. Left of the plan: a *permission*
specification in the manner of `Consent` for tokens and grants. At most eight
modules can hold theorems, so that the proofs about several components share one.

## 3. Keyring

`Keyring.tla` models `internal/crypto/keyring`. State: `disk` is the file;
`mem`, `deks`, `kekOf`, `lease` are the fields of one `Keyring` value per
process; `mu` and `flock` are the two locks (the flock belongs to an open file
description, so it also keeps two goroutines of one process apart); `pc` and
`call` say where each goroutine stands in its call; `used` and `sealed` are
history. Data is reduced to what the properties need: a DEK is a number, a
wrapped DEK is the pair of DEK and KEK, a nonce is the pair of term and counter.

| Action | Code |
|---|---|
| `Open`, `Stop` | `Open`; `Zero` and process death at any point |
| `ActiveDEK` | `ActiveDEK`, which answers from memory |
| `NextFast` | `NextGCMNonce`, lease not used up |
| `NextTakeMu`, `NextLoad`, `Save`, `NextReturn` | the slow path: mu, flock and reload and merge, atomic write, lease |
| `NextRefuse`, `NextSaveFails`, `GiveUp` | its error returns, with the rollback of the counter in memory |
| `Begin...`, `...Load`, `...Refuse`, `LifecycleSaveFails`, `LifecycleReturn` | `RotateTerm`, `RotateKEK`, `DestroyTerm`: flock, mu, reload, change, save |

Runs. `keyring_nonces`: two processes, two terms, leases of two and a counter
that ends at three, so that a lease is clamped and a term is exhausted:
`NonceUnique` and `CountersNeverBack`.
`keyring_terms`: two KEKs, strict mode, three DEKs, so that two processes can
generate different DEKs for the same term after a failed save: `TermsUsable`
(`OneActiveTerm`, `SealedReadable`) and `DestroyedForever`.
`keyring_calls_return`: every call returns when each process has one goroutine.
`keyring_lock_order` shows where the code and its comment disagree: with two
goroutines on one `Keyring`, a nonce request (mu, then flock) and a rotation
(flock, then mu) wait for each other forever.

Three more things the code does not promise, and the model shows. `DestroyTerm`
zeroes the DEK's bytes where they are (`lifecycle.go:184-188`) and `ActiveDEK` hands
the map's own slice out (`keyring.go:104-108`): another goroutine of the process that
is about to seal goes on with a key of zeros (`Zeroed`). If the save of that
`DestroyTerm` fails, the term stays live on disk and the value cannot be read:
`SealedReadable` is false of two goroutines of one process. It is checked, and
proved, for processes of one goroutine (`OneGoroutine`); that one term is active
and can be unwrapped is proved for any (`OneTermActive`). `RotateTerm`
wraps the new DEK under the KEK its caller opened the keyring with
(`lifecycle.go:45`), so that after a `RotateKEK` of another process the file
holds terms under two KEKs; hence no property says that one KEK opens all of the
file. And `ActiveDEK` answers from memory (`keyring.go:103`) while
`NextGCMNonce` does not look at the status, so that a process seals under a term
that another one has retired; `SealedReadable` says what remains true, that such
a value can be read as long as the term is not destroyed.

Bounds: `MaxTerm`, `MaxDEK` limit rotations, `MaxCounter` is `math.MaxUint64`
scaled down and really reached, `LeaseSize` is the code's field with small
values (0 is its strict mode). The state is symmetric in the processes.

Fairness: strong fairness of every goroutine's next step. The kernel queues
flock waiters and Go mutexes switch to hand-over in starvation mode, so that a
call that could go on again and again does go on. Nothing is assumed about new
calls being made, about failures, or about processes staying alive.

Proofs (`KeyringProofs.tla`), for every number of processes, goroutines, terms
and KEKs, every lease size and every counter width: `KeyringInvariant`
(`TypeOK` and the inductive `NonceInv`), and from it `TypeCorrect`,
`NonceUniqueness` and `CountersNeverRollBack`. `NonceUnique` alone is not
inductive: a step could return a nonce of a lease that some other process also
holds. `NonceInv` adds who holds the locks (`LockInv`), that memory is ahead of
the disk only between a thread's load and its save (`MemInv`, `LoadedInv`), that
everything returned or set aside lies below the counter on disk
(`WatermarkInv`) and that what is set aside is set aside once and unused
(`DisjointInv`). A failed save is the interesting step: it must put the counter
in memory back, or the next reload would merge a counter that was never
flushed, and `NonceInv` would be false.

`TermsStayUsable` (for processes of one goroutine), `OneTermActive` and
`DestroyedStaysDestroyed` (for any) rest on a second inductive
invariant, `TermInv`, over the first. `Knows(t, d)` says that a DEK `d` held for
term `t` is the one on disk as long as the term is live there. It holds of every
DEK in a process's memory (`DeksInv`), in a call that seals (`SealInv`) and in the
values sealed so far (`SealedInv`), where it is `Whole`, not zeros, if no process has
two goroutines. What a thread is about to save `Follows` the
file on disk: no term comes back and no DEK of a live term changes
(`SavingInv`). The interesting step is the re-wrap, which writes DEKs from a memory that
may be old: it can only write the file's own DEKs back, since it knows no others.
After a failed rotation the new term is in memory but its DEK is not
(`lifecycle.go:78` keeps it only after the save), which is why the process does not
seal with a DEK that no file has.

Left out: keyrings with XChaCha20 (random nonces, no counters), and
`migrateV1toV2`, which nothing calls.

## 4. Gateway tokens

`GatewayToken.tla` models `internal/gateway/token`. `store` and `tmp` are
`tokens.json` and its temporary file, reduced to the known and the revoked ids;
`storeMu` and `flock` are the two locks of `withStoreLock`; `lines`, `torn` and
`logLock` are the use logs. `acked`, `late` and `uses` are history.

| Action | Code |
|---|---|
| `BeginMint`, `BeginRevoke`, `StoreLocked` | `withStoreLock`; with `LockMayFail` it goes on without the flock, as the code does |
| `MintLoad`, `RevokeLoad` | read the file, add a record, mark a token and its children |
| `WriteTmp`, `Rename`, `StoreFails`, `RenameFails` | `saveStore` and its errors |
| `Verify`, `ConsumeLock`, `ConsumeRefuse`, `AppendUse`, `AppendFails`, `Sync`, `SyncFails` | `Verify` and `consumeUse`: count, append and sync under the flock of the use log |
| `Expire`, `Crash` | the clock; death of a process, which drops its flocks |

A torn line (`AppendFails`) has no newline: the code counts it as a use and the
next append is glued to it. A failed sync refuses the use although its line may
be counted later, so that uses err on the side of too few.

Run `permissions`, part token: three goroutines of two processes, an
unlimited parent and a child limited to two uses and bound to a nonce: the
limit (`UsesBounded`), revocation including the cascade and the records
(`FileTrue`), and every update (`NothingLost`) hold.
With `LockMayFail = TRUE` the same properties about the file fail (`IssuedKnown`,
`NothingLost`): `withStoreLock` swallows every error of the lock and goes on
without it (`store_lock_unix.go:30`), and two processes then overwrite each
other's `tokens.json`.

Proofs (`PermissionProofs.tla`). `UseLimit` holds whether or not the lock works. Its invariant `UseInv`
says that each use, accepted or in flight, has its line in the log, and that only the holder of a log's flock is between counting and appending.
`RevocationHolds`, `IssuedTokensKnown`, both together as `TokenFileTrue`, and
`UpdatesSurvive` assume
`LockMayFail = FALSE`, since they are false without it; `StoreInv` says that
whoever has changed a copy holds the flock and that its copy still contains all
of the file, which is what makes the rename lose nothing.

Left out: the cascade goes one level deep in the code and in the model; Windows
lock files; signature and audience checks of the JWT, which keep no state.

## 5. Approvals

`Approval.tla` models `internal/gateway/approval` and the `approve` and `deny`
commands. `rec`, `tmp` and `used` are the files of a request, `pub` the approver
key; a signature is the pair of key and signed fields. `agreed` (contents a
human saw and approved), `served` and `accepts` are history.

| Action | Code |
|---|---|
| `RequestNew`, `RequesterEdits` | `RequestNew` with its capped TTL; the requester owns the file and may rewrite it at any time |
| `Show`, `ListAll`, `Unlock`, `DenyNext`, `Answer`, `GiveUp` | the commands: what is shown, the passphrase, `deny --all` one by one |
| `DecideLoad`, `DecideRefuse`, `WriteTmp`, `Rename`, `WriteFails` | `decide`: read again, compare with what was shown, sign, replace |
| `SweepLoad` | `ExpireOldPending` |
| `Verify`, `Consume`, `ConsumeRefuse` | `Verify`: signature, content, window; then the exclusive creation of the marker |

Run `gateway`, part approval: an approval is used once and only for a content
that a human saw, which is what `Consent` says and `ImplementsConsent` checks.
Bounds: one request, two contents, two keys, a clock
of three ticks, so that windows both include and exclude a use. Requests share
nothing but the list of a `deny --all`.

What does not hold, because `decide` and the sweep read the record, check it and
replace the file without a lock: an approve and a deny that read the same
pending record both report success, and the sweep replaces a decision that was
made after it read the record (`approval.go:221`, against the comment "Decided
entries are left alone"). And `deny --all` ends at a request that was decided in
the meantime, because the digest is compared before the status
(`approval.go:351`) and the loop does not tolerate `ErrChanged`
(`deny_cmd.go:170`, against the comment "tolerate races").

Proofs. `OneUse` needs `UsedInv`: a use was accepted at most once and only if
the marker exists. `OnlyShownIsServed` needs `SignedInv`: every record that is
signed as approved, on disk, in a temporary file or in the memory of a call,
was signed over a content in `agreed`. This is needed because the requester may
rewrite the file between any two steps.

Refinement. `Consent.tla` is what approval promises, without files, processes
and clocks: somebody agrees to contents of a request, and a request is spent at
most once, on a content agreed to before. `ImplementsConsent` maps `agreed`,
`accepts` and `served` to it; `RefinesConsent` proves it for every instance. A
`DecideLoad` that approves is an agreement, `Consume` spends the request, every
other step is invisible. That `Consume` may only happen to an unspent request
comes from `UsedInv`, that its content was agreed to from `SignedInv`.

Left out: `PolicyChecker`, which no production code calls.

## 6. Grants

`Grants.tla` models `internal/grant`; its state is that of `GatewayToken`
without locks on the file, and `cand` are the grants that `Find` has still to
try. Which grants fit a request (actor, connection, capability, command and
directory patterns) is the constant relation `Fits`; the order in which `Find`
tries them is left open.

| Action | Code |
|---|---|
| `CreateLoad`, `GrRevokeLoad`, `GrWriteTmp`, `GrRename`, `WriteFails` | `Create`, `Revoke`, `writeGrants` |
| `FindRead`, `Skip`, `FindUnlimited`, `Found`, `FindNone` | `Find` |
| `GrConsumeLock`, `ConsumeExhausted`, `ConsumeFails`, `GrAppend`, `GrAppendFails`, `GrSync`, `GrSyncFails` | `consumeUseLog` |
| `GrDone` | `CheckPolicy`, which goes on with the grant |

Run `permissions`, part grant: one process issues and revokes, two search
(`GrantsHold`).
`grant_revocation_lost`: with two processes that issue and revoke, a `Create`
that read the file before a `Revoke` brings the revoked grant back.

Proofs (`PermissionProofs.tla`): `GrUseLimit` for any number of writers;
`GrRevocationHolds` under `OneWriter`, the condition whose absence the second run refutes; `GrantsSafe`
states both. The invariants
are `GrUseInv` and `GrStoreInv`, with the single writer in the place of the lock.
`Create` never sets a parent, so the cascade of `Revoke` finds nothing.

## 7. Broker

`Broker.tla` models `internal/broker`: one process, goroutines as actors.
`cache` holds entries with `insertedAt` (`at`), a flag for zeroed bytes and the
goroutines that share them; `vault` is the locked flag with the flush as a
second step; `cut` and `since` are history: the tokens that a revocation or a
lock rules out for later exchanges.

| Action | Code |
|---|---|
| `Begin`, `Hit`, `HitExpired`, `DeleteStale`, `Miss` | `Exchange` up to the provider, `cache.get` with its change of locks |
| `Issue`, `Set`, `Emit`, `Fail`, `BkReturn`, `BkDone` | the provider's answer, `cache.set` with eviction, the audit event, error returns |
| `Revoke`, `RevokeToken`, `RevokeAll`, `RevokeNext`, `RevokeAllReturn` | `Revoke` and `RevokeAll`, one token after the other |
| `LockFlag`, `Flush`, `BkUnlock` | `OnVaultLock`, `OnVaultUnlock` |
| `BkExpire`, `EvictExpired` | deadlines and the janitor |

Run `permissions`, part broker: two goroutines, two keys of two sessions, one
cache entry, two tokens, so that every second exchange evicts: `BrokerHolds`. Its
part `FreshAfterRevoke` makes an
exception for a token that was on its way from the provider to the cache when
the revocation or the flush ran, and the code needs it: `Exchange` reads the
locked flag only at its start (`broker.go:126`) and inserts afterwards, so that
such a token is cached although the vault is locked (the test
`vault_lock_test.go:94` says "the cache must be empty") and is served to
exchanges that begin after the revocation.

Proofs. `CacheKeepsBound` from `BoundInv` (the set of cached keys is finite and
within the limit; finiteness is what makes cardinalities comparable),
`ResultsStayIntact` from `IntactInv` (entries and results never share bytes,
because `get` and `set` copy), and `RevocationHolds` from `FreshInv`: what a
revocation rules out is neither cached nor on its way, and a later revocation
rules out no less, because a token is on its way only once. `BrokerSafe` states
the three together.

Insertion times are taken in the order of the provider's answers. Concurrent
calls of `OnVaultLock` and `OnVaultUnlock` are serialised. `onEvict` is never
set by the code. Dry runs change nothing.

## 8. Audit log

`AuditLog.tla` models `internal/audit`. `file` holds the lines of every inode,
`dir` says which inode is the log (0) and which is generation g; per process
there are the open file `fd`, the chain state `seq` and `prev`, and where it
stands in Log, rotation or Prune. A line is its id, which stands for its HMAC,
with the header fields that `VerifyChain` looks at. Every system call another
process can see is a step.

| Action | Code |
|---|---|
| `Open`, `Reopen`, `Stop` | `Open` with the seed from the last line; `Close` and death |
| `Log`, `LogShortWrite`, `LogSynced`, `LogSyncFails` | `Log`: write, sync, then rotation when it is due |
| `Rotate`, `Mark`, `MarkSynced`, `RemoveOldest`, `Shift`, `RenameLog`, `RenameFails` | the first half of a rotation |
| `OpenNew`, `OpenNewFails`, `RestoreFails`, `KeepCurrent`, `KeepCurrentFails`, `Continue`, `ContinueSynced`, `Sentinel...` | the second half and its recovery |
| `PruneCopy`, `PruneRename`, `PruneReopen` and their failures | `Prune` |
| `Sweep` | the sweep of old generations, oldest first |

`audit_log`: one process at a time (it may crash and be started again), every
operation, and up to `MaxFault = 2` faults of any kind at any point. Six lines
and four files let the log rotate through its generations (`Retain`) and be
pruned in between. An event whose `Log` returned nil stays on disk until
retention removes it (`AckedOnDisk`); every file verifies at every moment except
those in which a write or an fsync failed and those that Prune rewrote
(`ChainVerifies`); and a continued sentinel always names the last line of the
file before it (`LinksHold`; the last two together are `ChainHolds`). The three exceptions are real: after a short write
the next acknowledged event is glued to the fragment and cannot be decoded
(`log.go:133`), after a failed fsync the next line repeats a sequence number
(`log.go:144`), and a pruned file does not begin with sequence number 1
(`tail.go:263`, against `prune_test.go:88` "chain reseeds cleanly").

`audit_two_loggers` is the disagreement that normal use meets: a command beside a
running gateway forks the chain, because each `Logger` continues from the line
it read when it opened the file. With `Proc = {p1, p2}` also `AckedOnDisk`
fails, both with "rotate" alone (one process renames the other's new file over
the generation just made) and with "prune" alone (the other process goes on
writing to a file without a name). A rotation that fails has already removed the
oldest generation (`log.go:350`), so that repeated failures remove one after the
other although none is added.

Proofs (`AuditLogProofs.tla`), for any number of lines, files, generations and
faults. `AuditLogTypes` needs nothing; `AuditLogAcked` and `AuditLogChain` assume
`Single`, one process, since both are false of two. The inductive invariant
`SingleInv` has a part per question. `DirInv`: no inode has two names, the open
file is the log except between the two renames of a rotation, Prune's
temporary file has no name, and the generation above the one to be shifted is
free, so that no rename overwrites anything. `ChainInv` and `StateInv`: every
file that is not marred verifies, and the process's `seq` and `prev` are those
of the last line of the file it will write to next, or of the one before it
while that line is not synced. `DiskInv` and `TornInv`: an event that was
acknowledged, or is about to be, is in a named file and is not the torn line that
the next write will swallow. `LinkInv`: while generations are shifted, the files
on both sides of the gap are linked. What `Kept` computes is reasoned about with
the least position at which a claim about it fails, because the prover has no
induction over data.

Opening and seeding are one step. A glued line keeps the id of the event that
was swallowed. Encryption of lines, the field filter and the salt are left out.

## 9. Versions of a secret

`VaultVersions.tla` models `internal/vault/versions.go` on the file backend.
`meta` is the metadata file (counter, limit, listed versions, oldest first);
`ct`, `nonce` and `side` are the three files of each version; `call` holds the
locals of a call, among them the metadata it will save. A sealing has a number;
a value is the number of the sealing that brought it in. The clock counts
seconds, because that is what the associated data states.

| Action | Code |
|---|---|
| `Rotate`, `Bind` | `RotateValue` up to `SetVersioned`: audit check, metadata, and the two clock readings |
| `WriteCiphertext`, `WriteNonce`, `WriteSidecar` | `SetVersionedEncrypted`, `writeVersionMeta` |
| `Evict`, `SaveMeta`, `Emit` | steps 11 and 12 of `RotateValue`, the audit event |
| `WriteFails`, `Undo` | an `atomicWrite` that fails, and the removal of the ciphertext that follows |
| `Rollback`, `ReadOld`, `RollbackRotates` | `Rollback` |
| `Destroy`, `Drop`, `Mark` | `DestroyVersion` |
| `Served` | `GetVersion`, which changes nothing |

Run `local_stores`, part versions, has one writer at a time: every write, removal and audit event
may fail and a call may die between any two steps; four sealings with limits of
two and three, raised and lowered, and two seconds make evictions, rewritten
leftovers and rollbacks happen. The current version stays readable, `GetVersion`
returns what the writer was told of, a failed rotation costs no version but the
one that was due for eviction, destroyed versions are not served, numbers are
unique, the counter never falls and a list longer than its limit never grows.

Each restriction of the run is needed, and changing the constant shows it:

* `Limits` with 1: the ciphertext of the current version is deleted
  (`versions.go:256`) before the metadata is saved (263); a failing save removes
  the new one as well (266), and the secret is lost. `CurrentIntact` fails.
* `Faults` with "split": `SetVersioned` reads the clock twice
  (`backend/file/versions.go:35` and `43`) and the associated data states the
  second (`crypto/aad/aad.go:31`); if a second ends in between, the value can
  never be decrypted and nobody is told. `CurrentIntact` fails.
* Two processes: the metadata is read, changed and written back without a lock.
  `VersionsUnique` and `CounterNeverFalls` fail without any fault.
* `Audited` without "rollback": this is what the `rollback` command does, since
  it puts no emitter into its context (`cli/rollback_cmd.go:56`); its
  `RotateValue` then refuses every time. The run has it, as `vault.Rollback`
  behaves for a caller that does.

Proof (`StoreProofs.tla`): `VersionsOfOneSecretHold`, for any number of
versions, writes, seconds and destructions, under `VvOne`: one process, no limit
of one, no second that ends between the two readings. These are the three
restrictions whose absence breaks the promises; failing writes, removals and
audit events, and crashes between any two steps, are all allowed. The inductive
invariant `VvInv` says that the list holds the newest versions up to the counter
without a hole, that the three files of a listed version are of one sealing and
were not written over, that whatever lies above the counter is a leftover nobody
was told of, and for each step of a call which files it has written and that its
copy of the metadata is still the saved one.

The audit event is written last (`versions.go:272`): when it fails the caller is
told `ErrAuditFailed`, "operation refused", and the value is stored and current.

Fields that are copied through (owner, scope, custom fields) are left out, and
so are `DeletedAt`, which only ever appears on an entry that is dropped before
the list is saved (hence `ErrVersionDeleted` cannot happen), `OldestVersion` and
`DestroyedVersions`, which no operation reads. `migrateIfFlat` has no caller
outside tests.
## 10. The other stores

`FileStore.tla`: the flat layout of the file backend. `FsSet` writes the
ciphertext, its nonce and its associated data one after the other, changes the
manifest in memory and saves it; `FsDelete` the reverse. A process loads the
manifest once. Any write may fail and the process may die between two. What Set
or Delete reported holds for its path in this process and after a restart
(`FsAckedHolds`), however calls on *other* paths fail. It is one process at a
time: two processes write back whole manifests and drop each other's entries.
A failure after the first of the three files leaves a value that cannot be
opened; the property speaks of the last reported call of a path, since the call
that failed said so.

`FileStore.tla` has `migrate cipher` too (run `local_stores`, part migrate): Three versions and two metadata files,
each replaced on its own; a failure writes back what was overwritten.
`CmAllOrNothing` is the comment of the command ("the migration is atomic"),
`CmCrashCostsFew` what remains of it when the process dies, which the comment
does not mention: at most the version being written, and one more if the
rollback dies. `ensureGCMCounter` and `updateKeyringAlgorithm` rewrite
`keyring.json` without the keyring's lock (`migrate_cmd.go:363`), so that a
counter reserved in between is set back; `Keyring` has no such step.

`Keychain.tla`: two processes at the macOS keychain. The password in the login
keychain opens the keychain file that holds secrets and manifest; `KcGet`,
`KcSet`, `KcDelete` take the file lock, unlock, work, lock and release; `KcInit`
takes no lock before its canary. `KcNeverOrphaned`, `KcOpenOnlyUnderLock` and
`KcAckedStored` hold while nobody reads or writes during an Init: the ACL repair
reads and rewrites every item without the file lock (`acl.go:149`) and would
undo a Set. A `security` command that exits with an error is no error of the
runner (`exec/runner.go:79-85`), and Set (`keychain.go:211-222`), Delete (298-307)
and `saveManifest` (403-412) do not look at the exit code: after a refused write
they go on and report success, and the canary of Init proves nothing. The actions
do the same (`KcStore`, `KcErase`, `KcSaveManifest`); `KcAckedStored` therefore
speaks only of calls whose commands all exited with 0 (`"ok"` in `kcAcked`), and
a success reported after another exit (`"unheard"`) promises nothing.

`RemoteStore.tla`: twelve password managers and services behind
`vault.Get/Set/Delete/List`. A backend function is a program, a sequence of
instructions such as "look the item up", "create", "drop the cache entry"; the
actions execute one instruction of one goroutine. The programs differ per
backend and so do the tables that say what a failure may be reported as: `bw`,
Proton Pass, Keeper, LastPass, Vault and Azure look for "not found" or "404"
anywhere in the text of an error, so that an unreachable or forbidden store may
be reported as a missing secret, and `NotFoundTrue` is stated for the other six
(`Telling`). An item of bw or op holds all the fields of a connection and is
cached as a whole; the path is one field, which an item may lack (`None`). When a
Set or Delete overlaps the fetch of an item, or a hit on it, the old item stays in
the cache, and a Get of a field stored meanwhile says "not found" for up to a
minute (`op.go:321,339-346`, `bw.go:440,465`); `NotFoundTrue` exempts that case
(`stale`) and `CacheFresh` says what the cache holds otherwise. Sets and Deletes
of the other fields of the item are left out, and with them that a Delete of bw or
op removes the whole item. Run `remote_stores`: eleven of the twelve (Keeper's
programs are Proton Pass's), one goroutine that reads and writes, one that reads,
two values, two items under one title (`MaxItems`); every request may fail, lose
its answer or meet a locked or expired session. `OwnBytes` is stated for the backends that copy: the Bitwarden,
Proton Pass and Keeper backends hand out the cached slice itself, against
`backend.go:88`. `OneItem` exempts a Set of bw or op that could not look the
item up and took it for absent.

`RemoteStoreHolds` and `RemoteReadsTrue` (`RemoteProofs.tla`) are proved for every
one of the twelve backends, any number of goroutines that read, any secrets and
any number of items; one goroutine writes (`Writer`). The invariant, `RemoteInv`,
has four parts. `CallsMade`: what is left of a call is the end of a backend's
program, of which the proof uses only which instruction follows which (`Shaped`),
and only the writer runs one that writes. `StoreInv`: one item per path where the
backend replaces in place; nothing is stored when a write follows a look that
found nothing; and a Set without a storing instruction left has its value as the
only item. `AbsentInv`: whoever may still report "not found", from the store or
from the fetch it joined, has seen the item absent. `BytesInv`: whose bytes are
whose (no caller of bw, op and the backends without a cache shares any, but
between fetch and copy), what is cached is a stored item unless it is marked old or
the writer is about to evict it, and so is a fetch's result unless it is late.
Every kind of instruction is a lemma of its own.

`BwSession.tla` (run `services`): the session that `bw unlock` caches in two
files without a lock. `Forgotten`: nothing saved before a lock began is loaded
after it returned. `WithinTTL`: a session is not loaded beyond its ttl by a
command that starts after the unlock returned. Exempt, because the code does it:
two unlocks at once, or a load that overlaps an unlock with a shorter ttl, may
pair a token with the other expiry; a crash between the two writes keeps the
older expiry; a reader may take the zeros of a lock for a token, which `bw`
rejects.

Proofs (`StoreProofs.tla`), for any number of paths, versions, processes,
passwords and values. `FlatLayoutHolds` from `FsInv`: the path of the call under
way promises nothing, the files written so far are of its sealing, and every
other path is as reported both in the manifest on disk and in the one in memory.
`CipherMigrationHolds` from `CmInv`, which says for every phase which versions
are old, which new and which are backed up: before the one at hand and after it,
forwards and during the rollback. `KeychainStoreHolds` from `KcInv`: whoever is
between taking the file lock and releasing it is the one the lock names, its
password opens the keychain, its path promises nothing and the manifest it
loaded is the stored one; Init runs alone.

`CachedSessionsHold` (`ServiceProofs.tla`) from `BsInv`: the token file holds
the newest session or none, the expiry beside a saved session whose unlock
returned is its own, and what a command has read is bounded by what it saw when it
started. A ttl is at least one second (`session_cache.go:73`).

## 11. Identity, setup, guards, doctor

`VaultIdentity.tla`: the identity from which the key of `keyring.json` is
derived, in a plaintext file or in the OS keyring behind a reference file. Every
file operation and every call of the OS keyring is a step of the booter or an
opener; three commands in all; any may die anywhere, and the OS keyring may keep
other bytes than it was given. `IdentityNotDestroyed` and `IdentityLoads` hold
with the exemptions they state, each of which is code behaviour:

* `Location` looks at the reference and then at the file, so that a bootstrap
  beside a migration provisions a fresh identity over the reference
  (`vault_identity.go:83`);
* a second migration that reads the file while the first shreds it stores junk
  and repoints the reference; and a crash between overwriting and unlinking
  leaves junk, which makes `MigrateToKeyring` refuse ever after, although its
  comment says that it finishes an interrupted migration
  (`vault_identity.go:158`, `343`);
* `bootstrap --force` beside another command may shred the new identity.

`VaultIdentityKept` (`StoreProofs.tla`) is proved for any number of openers,
commands and items. The identity that counts is in the file or *settled*: in an
item that no command will take back, because the owner of an item takes it back
only before it has referred to it. `ViFacts` says per step what a command may
rely on: the item it writes is its own and nothing refers to it, a migration
carries the identity that counts or that is settled already, and the file is
shredded only once it is.

`Setup.tla`: the wizard, `setup --non-interactive`, `config set`, an editor and
changed permissions on `config.json`, with two setups and two edits.
`DoneMeansReady`, `SwitchByConsent`, `UserSettingsKept`. Beyond them: bootstrap
writes the config before the identity is provisioned, so that after a failed
first attempt a non-interactive setup answers "already configured"; `config set`
on an unreadable file starts from the defaults (`config_cmd.go:146`).

`SetupKeepsPromises` (`ServiceProofs.tla`), for any backends and any number of
setups: a setup without consent holds on to the backend of the file it will
replace, and what it saves was bootstrapped (`StHolds`, in `StInv`).

`GuardInstall.tla`: `install-guard` by two processes, three commands, while the
user saves the same settings. `UserHooksKept`, `GuardOnce`; the format of
Cursor, Codex and Gemini replaces a `hooks` object by an array, a second
migration overwrites the hooks parked by the first, and some `IsInstalled` look
for another script name than the one written. The list of hooks is the set of
the user's entries and the number of the guard's own. `GuardInstallHolds`
(`InterfaceProofs.tla`), for any number of commands and entries: the settings in
place keep the user's entries and name the guard at most once, and so do those a
command is about to save, unless the user saved in between (`GiInv`).

`Doctor.tla` (run `services`): all thirty-five checks over a machine described
by facts of which up to two are out of order or change under way; a step is a
check that reads `config.json` and the checks up to the next such one.
`HealthyMeansUsable`, `ExitTrue` (with its repair) and `SummaryNamesExit`. The
repair has two steps: when `RepairACL` has mended the unlock item and
`RepairItemACLs` fails (`acl.go:110`), doctor counts nothing as repaired and ends
with the old report, with exit code 1 for a machine in order, although the
comments say the report shows the state after a repair (`doctor_cmd.go:142`,
`doctor_repair.go:42`); `ExitTrue` asks there only that the code is not better
than the machine deserves. What
the exit code does not tell: any JSON object passes as config
(`bootstrap.config`) although `config.Load` may reject it; no vault identity at
all passes; Proton Pass, Keeper and LastPass without their tool exit with 0.

`DoctorTellsTrue` (`InterfaceProofs.tla`): all three, for any number of facts
out of order and any changes of `config.json` under way. By `DrInv` the report
of a doctor beside whom nobody changes anything is what the checks made so far
say of the machine, and a completed repair starts it anew; where a repair stopped
halfway the report is that of a machine that differs only in the ACL of the
unlock item, which a single check looks at (`DrOnlyAcl`, `DrNamed`); the
report of one that ended decides its exit code and what it prints in every case.
`DrBlocks` shows that the checks of one step follow one another, so that none is
skipped. `HealthyMeansUsable` then follows from the thirty-five checks, given
that the audit directory and log are in one of the six states the checks can
tell apart (`DoctorAssumption`).

## 12. Gateway and sessions

`GatewayRequest.tla` (run `permissions`, part request): the middlewares and
`gatewayHandler` with every check in its order, the windows of the budget
(`budget/counter.go`), the lock flag of the static broker, and each copy of the
credential. What depends on the request alone is a choice at the step that looks
at it. What a policy decides stands before it, as operators that the
handler's step uses. Two requests at once, one actor with two capabilities, limits
of one per hour and two per day, and windows that end at any time:
`GwBudgetHolds`, `GwNeverBare`, `GwWiped`. What the code does not promise, and the
properties therefore do not say:

- a window belongs to an actor, a capability and a limit type (`counter.go:24`), so
  that an actor with several capabilities has the limit once for each, although
  `handler.go:236` speaks of a budget per actor;
- the wipe is registered after the exchange, so that a failed exchange leaves the
  root credential in memory (`handler.go:350`);
- `injectAuth` makes a Go string of the token (`handler.go:472`), which stays in the
  request's header or query until the garbage collector takes it;
- an empty stored value is sent as no credential at all (`handler.go:469`).

`GatewayProcess.tla` (run `gateway`): `gateway up` and `down` with three PIDs
that are reused. `NoStrangerSignalled`, `GatewayFindable`, `LoopbackInSession`.
`gpHost` is the machine, and two of the three properties do not hold on all:

- on Windows nobody's identity is checked (`gateway_cmd.go:554-559`), and `down`
  terminates whatever program has the PID of the file. `NoStrangerSignalled` says
  so; the comment of `gatewayDownStalePID` (`gateway_cmd.go:531-534`, "do not signal
  an unrelated process") is true of unix only;
- where the first field of the `ps` line is not the gateway's name, a path with a
  space or a renamed binary (`pid_identity.go:57-68`), `down` takes the live
  gateway's file for a stale one and removes it. `GatewayFindable` says so.

`GatewayFindable` speaks of a gateway that was alone: the PID file is written
before the port is bound and removed without looking whose it is
(`gateway_cmd.go:397`), so that an `up` that loses the port takes the file of
the one that serves.

`AgentSession.tla` (run `gateway`): `launch` and the classification of sessions by
a variable in their environment, an ancestor's name or a ticket. Three PIDs, three
processes started, two ticket keys: two launchers that race for the key and a
harness; a launcher, its harness and what that starts; or a stranger with a
launcher's PID and its ticket. `SessionRecognised`, `OnlySessionsRecognised`,
`GroupStopped`. A ticket counts for twelve hours (`TicketExpires` may come at any
time after the issue) and only for who carries it: a process that a harness with an
unknown name starts with a cleared environment is not recognised, whatever the long
text of the command says (`launch_cmd.go:34-36`). A label may be set by anyone, and
`OnlySessionsRecognised` counts it. Assumptions: a PID is not reused within a clock
tick of `/proc/<pid>/stat`, and the clock is not set back. A ticket key that a crash
left half written makes every later launch fail.

Proofs (`GatewayProofs.tla`), for any number of requests, actors, routes,
policies, launchers and PIDs. `GatewayBudgetHolds` from `GwCountInv`: what was let through since a
window opened is what the counter says while it has the window. `GatewayRequestHolds`
from `GwReqInv`: a token exists from the exchange on only, a route's secret was
read on record before it, and of a request that has ended past its exchange the
string alone is left.
`GatewayProcessHolds` from `GpInv`: a gateway that was alone is named by the file
from writing it until it closes, and a `down` without --force that is about to
signal has seen a keylatch process, which still is one or is gone.
`AgentSessionsHold` from `LsInv`: one launcher writes the key, every signed ticket
carries the key of the file, the process a ticket names by PID and start time is
supervising, and a harness's group never contains its launcher. The proof showed
a slip of the model, now mended: a launcher that is killed with its group leaves
no launch behind, and `SuperviseLaunch` says so.

## 13. Running commands

`RunCommand.tla` (run `services`): `run` and `call` from the refusals to the
exit code. An environment is a function from classes of variables to values with
an owner, so that a token of another command is told apart. One command at a
time is enough, because commands share nothing but the services, which come and
go, and the environment of a parent, which is part of the request.
`RnChildClean`, `RnExitHonest`, `RnWiped`. The proxy driver does not look at the
template (`driver_proxy.go:67`): of `--extra` it withholds what is named like a
credential (263-278), so that an account id or a URL of the rules (the class
`ID`) reaches a proxy child that asks for it. `RnChildClean` speaks of the rules'
variables only: the session of a password manager (`BW_SESSION`,
`OP_SERVICE_ACCOUNT_TOKEN`) is a variable like any other to the gateway drivers
and reaches the child, which
`TestSecurityRegression_GatewayMustStripManagerAuthentication`
(`gateway_typed_security_regression_test.go:23`), a test that is marked as
failing, says must not be. Not claimed: `direct_brokered` with
`--clean-env` drops the injected variable as well (`root.go:963`), and the
branch that starts the gateway by itself (`root.go:891`) is never reached.

`MintToken.tla` (run `services`): policy, GitHub's reply, comparison, audit line
and output of `mint`. `PrintedWithinPolicy`; `FailedMintRevoked`, which exempts
what the code cannot mend: a reply that never arrived, a failed revocation, an
output that could not be written.

Proofs (`ServiceProofs.tla`): `RunCommandsHold`, for any number of commands and
requests, from `RnInv`, which says of every step of `run` and `call` what the
environment and the memory hold there; the environment of a driver is followed
through each of its layers. The rules' variables are classes of their own
(`RnAssumption`). `MintedTokensHold` from `MtInv`: past the check the policy
allowed the request, past the comparison the reply is within it, past the audit
its line is written.

## 14. Team

| Module | Models | Properties | Bounds |
|---|---|---|---|
| `Team`, roster | the team file and its one temporary file, RBAC, invites and the SCIM server on its old copy, without a lock | `FileWhole`, `OneOwner`, `OneInviteKey` | three members, two callers, three operations |
| `Team`, break-glass | the counter file under its lock | `BgRate`, `BgCooling` | two processes, a limit of three, a day of three hours, four hours |
| `SignedBundles`, policy | signed bundles, pinned key, cached decision, composition | `DecisionNotStale`, `OrgOnlyNarrows` | two processes, two ticks |
| `SignedBundles`, registry | one file per version, the highest counts | `RegistryNeverBack` | two processes |
| `CiIdentity` | cached signing keys, concurrent fetches, tokens | `WithdrawnKeyRefused` | two keys, two verifications, ttl one, two ticks |
| `EventBuffers`, exporter | the bounded buffer, its loop and Flush | `ExportAccounted` | four events, a buffer of two, two senders |

`writeTeam` truncates, fills and renames `team.json.tmp`, the same name for every
writer, so its comment "atomically writes" (`ops.go:109`) holds for one writer
at a time only: of two that overlap, one renames what the other has half written,
and `team.json` cannot be read any more. `FileWhole` says that this is the only
way to lose the file (a killed or failing writer alone never does), and the
other two properties are about a file that can be read. `AddMember` has no caller in
this build and is not an action; the team starts with members instead.

Each allows what the code allows: lost role changes and a removed member that
comes back, which no property forbids, an owner deleted through SCIM against `rbac.go:10` (`OneOwner` excludes a
deletion of the owner only where the code does), an older bundle installed after
the active one expired, requests of the exporter that fail and are neither
repeated nor counted. The Windows build of break-glass takes no lock. The times
of past opens are a set of numbered records, since two opens may fall into the
same hour of the model's clock.

Proofs (`ServiceProofs.tla`). `SignedBundlesHold`, for any bundles and
processes: every bundle in a file or a cache was on offer, and the registry's
files have a highest version, which never falls (`SbInv`, `RgInv`).
`WithdrawnKeysStayOut`, for any number of overlapping verifications: cached keys
were published at the time the cache names or later, and so were the keys a
verification works with, but for the ttl (`CiInv`). A fetch that ends late and overwrites a newer entry is in the model;
the entry then names the time its own verification began.

`TeamFilesHold`, for any members, callers and processes, has three invariants. In
`TmInv` every copy of the team, in the file, in a call and in the SCIM server,
has one owner, however old it is, because every operation on a copy keeps that
(`TmChanges`); and a copy names no invite key or the one in the key file: while
the key file is created and filled, no other call is past that point and no copy
names a key. `TmAlone` says that while no two writes have overlapped the one under
way has the shared temporary file to itself, and renames it only when it holds a
whole team. In `BgInv` the process that has loaded the counter file holds the
lock and its copy is the file; the file tells the latest close and every open of
the last day, so that a window that ends now or later holds at most the pruned
list and the new open.

## 15. Services

| Module | Models | Properties | Bounds |
|---|---|---|---|
| `TrustRoots` | resolving one or several roots, one at a time opened, checked and closed again; adapters; wrapping with keys of the SSH agent, which may refuse to sign | `NoRootLeaked`, `UnwrapFindsKey` | seven roots, two operations, two changes of an agent with two keys |
| `Connections` | connect, disconnect and the UI's pages, entry by entry, with fields that are given empty | `ListedComplete`, `DeletedMeansGone` | two commands, two required fields of which one may be given empty |
| `UiServer` | start, bootstrap token, limiter, session, scope | `BootstrapOnce`, `LimiterHolds`, `LlmConfined` | two requests in flight, four in all, two failures, three ticks |
| `EventBuffers`, streams | receipts ring and its streams | `StreamWhole` | ring and buffers of two, four receipts |
| `EventBuffers`, multiplexer | publishers under a read lock, Subscribe, Unsubscribe, Stop | `MuxOrder` | two publishers of two events, two subscribers with a buffer of one |
| `Masking` | redaction and labelling as recursive functions over documents, their fields a set | `NothingSensitiveLeft`, `ContentMarked` | every body, level and policy of the listed sets; the theorem has no such bound |
| `McpServer` | transports, nonces, limiter, allowlist, bearer session | `TestsSpaced`, `NonceBinds`, `RunsAllowedLines`, `SessionWindow` | three connections, two nonces, two tests, one run, four ticks |
| `ForwardProxy` | callers, routes, credentials, tunnels, leaf certificates | `CredentialConfined`, `CallerSecretsKept`, `LeafValid` | two requests, three hosts of which one is a subdomain of an allowed one, one redirection, leaves that live one tick, one tick |

What the properties exempt because the code does it: the limiter's gate and its
count are two critical sections; the HTTP client of the proxy sets no policy for
redirections (`server.go:541`), so one carries a credential in a header of its
own name to any host, one in `Authorization` to subdomains of the host it was
meant for, and one in a query to any host in the `Referer`, which is against
`TestSecurityRegression_ProxyRedirectDoesNotReenterHostAllowlist`
(`redirect_masking_security_test.go:60`, marked KNOWN-FAILING), and
`CredentialConfined` says so; deletions of connections that fail or run
beside another command leave entries; with several publishers the newest event
may be the one that is dropped (`mux.go:66`, against "drop-oldest").

`Masking` gives an object one name for its value. The code accepts `name` and
`key`, and in an object that has both as strings takes whichever its map yields
last (`secret_fields.go:204`), so that a value next to a sensitive name may stay;
such objects are outside the model, and outside the theorem. What may be left differs
with who masks (`MkFormats`): the levels of `masking` take out API keys and bearer
tokens wherever they stand, the gateway's profiles (`gateway/redact/redact.go:119`)
mask by the names of fields and, of formats, only those of four providers' patterns
and its caller's, so that such a key under an innocent name passes a profile that has
no pattern for it. An empty level or profile is basic in both. Not modelled:
`MaxBodyChars` beyond its effect (a cut JSON is text) and `BlockAttachments`.

Proofs (`ServiceProofs.tla`). `TrustRootsHold`, for any chain, operations and
agents: each root is open as often as it is among the roots held, one that was
opened and found to need a person included (`TrInv`); what is wrapped is under
the key of the root that wrapped it, so a root of that key fails to read only
when the key is not in the agent or the agent refuses.

`UiServerHolds`, for any number of requests: the
limiter's count is that of the recorded failures up to its limit, and once it is
reached only requests that had passed the gate can add to them (`UsInv`; this is
where cardinalities are needed). `ForwardProxyHolds`, for any number of requests,
hosts, headers and routes: where a request will be sent was checked before a
certificate, a route or a credential is looked for, and its route is the first
that fits
(`PxInv`; `MatchRoute` picks the least index, which exists because the naturals
are well-founded).

Proofs (`InterfaceProofs.tla`), for any number of connections, nonces, events,
publishers and subscribers. `McpServerHolds`, the whole of `McpHolds`:
admitted tests are those the limiter remembers, a nonce of an open connection is
registered to it, a session was last touched at its last accepted use (`McInv`).
What keylatch_run executes is an allowed line for every alphabet, line and array:
`WordsKeepPrefix` shows that a trimmed line and its fields joined by one space have
the same prefixes of those without two spaces in a row, by induction over the
words (each joined piece is the line up to the word's end, or has the prefix). That
prefixes have no two spaces in a row is an assumption: it holds of all templates
in the repository (`"node "`, `"python3 "`, ...), whose loader does not check it.
`EventBuffersHold`, the whole of `BuffersHold`: each exported event is queued, in
the hands of one sender, tried, or counted as dropped, and the four add up
(`SxInv`); the ring holds the newest receipts in a row, and a stream the first of
its own in a row, all of them unless it is marked as having lost some (`EsInv`);
a publisher's newest event is in no line it has still to be sent to (`MxInv`).
`ConnectionsAreWhole`: `ConnectionsHold` for any number of processes and any
provider template. Its invariant `CnInv` follows what each process has left to
do: a command's deletions come first and the metadata is the last deleted; before
the metadata is written, every required field is stored or the command has noted
that it is missing; a deletion reported without error has each entry either gone
or still ahead; and what is listed is complete unless the only command running is
deleting it with the metadata still ahead. "Required" stands here for the required
fields that no command gives empty (`CnNeeded`): a field given empty, by `--field`,
by the environment or by the page that creates a connection, passes the checks for
required fields and is not stored (`connect.go:84-93`, `cmd_connect.go:258-268`), so
that a connection is listed without it; the property says so. TLC checked `CnInv` as an invariant
with two processes before it was proved. `DoctorTellsTrue`: `DoctorTrue` whatever
fails on the machine and whatever other processes change between two checks.

`LlmConfined` counts a change of the settings among what an LLM session may do,
because the code serves it: the settings page is mounted for every scope
(`ui/server.go:195`). That contradicts the comment four lines below it ("write
endpoints are NOT mounted when scope is ScopeStatusOnly", `ui/server.go:199`), and
`TestSecurityRegression_StatusOnlyScopeCannotMutateSettings`
(`ui/settings_scope_security_test.go:18`), which the repository itself marks as
known to fail. The property claims the rest: loopback only, no connections, no
minting.

Seen while modelling and part of the model, but no property: the bearer loop of
the MCP server never checks its token, because `CheckAndTouch` has no production
caller; custom connections cannot be disconnected and make "clear" fail; a
successful `/api/csrf` resets the bootstrap failure counter; `Adapter.Close` of
the Vault root authenticates anew and revokes only the fresh token
(`trust/vault/vault.go:213`); any keyring error makes `LoadOrCreateCA` replace
the CA; routes of the proxy are not tied to hosts.

## 16. Runs, bounds and fairness

| Run | Shows |
|---|---|
| `keyring_nonces`, `keyring_terms`, `keyring_calls_return` | section 3 |
| `keyring_lock_order` (violation) | two goroutines, two locks in two orders |
| `permissions` | tokens, grants, broker and the gateway's request path (sections 4, 6, 7, 12) |
| `grant_revocation_lost` (violation) | two writers of `grants.json` |
| `gateway` | approvals and their refinement, agent sessions, the gateway process (sections 5, 12) |
| `audit_log` | section 8 |
| `audit_two_loggers` (violation) | two loggers fork the chain |
| `local_stores` | versions, flat layout, cipher migration, keychain, identity, setup, guards (sections 9 to 11) |
| `remote_stores` | section 10 |
| `services` | everything else (sections 10, 11, 13 to 15) |

Components that share no state are checked in one run: the variable `part`,
chosen initially, says which of them a behaviour is about, and only that one
moves. The states of the run are the sum and not the product of theirs. Where
components do interact (policy, budget, vault, broker and audit in one request;
policy, GitHub and audit in one mint; commands, services and child environments)
one module composes them.

The sections above speak of the parts of a property by name. A run checks, per
component, one property that is their conjunction, or a few where they are
independent:

| Property | Module | Parts |
|---|---|---|
| `TermsUsable` | `Keyring` | `OneActiveTerm`, `SealedReadable` |
| `FileTrue` | `GatewayToken` | `NoLateAccept`, `IssuedKnown` |
| `GrantsHold` | `Grants` | `GrUsesBounded`, `NoLateFind` |
| `BrokerHolds` | `Broker` | `CacheBounded`, `ServedIntact`, `FreshAfterRevoke` |
| `RequestHolds` | `GatewayRequest` | `GwNeverBare`, `GwWiped` |
| `SessionsHold` | `AgentSession` | `SessionRecognised`, `OnlySessionsRecognised`, `GroupStopped` |
| `ProcessHolds` | `GatewayProcess` | `NoStrangerSignalled`, `GatewayFindable`, `LoopbackInSession` |
| `ChainHolds` | `AuditLog` | `ChainVerifies`, `LinksHold` |
| `VersionsHold` | `VaultVersions` | `CurrentIntact`, `ServedAsWritten`, `ListedReadable`, `DestroyedStaysDestroyed`, `VersionsUnique`, `CounterNeverFalls`, `ListKeepsLimit` |
| `MigrationHolds` | `FileStore` | `CmAllOrNothing`, `CmCrashCostsFew` |
| `KeychainHolds` | `Keychain` | `KcNeverOrphaned`, `KcOpenOnlyUnderLock`, `KcAckedStored` |
| `IdentityKept` | `VaultIdentity` | `IdentityNotDestroyed`, `IdentityLoads` |
| `SetupHolds` | `Setup` | `DoneMeansReady`, `SwitchByConsent`, `UserSettingsKept` |
| `GuardHolds` | `GuardInstall` | `UserHooksKept`, `GuardOnce` |
| `StoreHolds` | `RemoteStore` | `OneItem`, `AckedStored` |
| `ReadsTrue` | `RemoteStore` | `CacheFresh`, `NotFoundTrue`, `OwnBytes` |
| `RunHolds` | `RunCommand` | `RnChildClean`, `RnExitHonest`, `RnWiped` |
| `MintHolds` | `MintToken` | `PrintedWithinPolicy`, `FailedMintRevoked` |
| `TeamHolds` | `Team` | `OneOwner`, `OneInviteKey`, `BgRate`, `BgCooling` |
| `BundlesHold` | `SignedBundles` | `DecisionNotStale`, `OrgOnlyNarrows`, `RegistryNeverBack` |
| `BuffersHold` | `EventBuffers` | `ExportAccounted`, `StreamWhole`, `MuxOrder` |
| `TrustHolds` | `TrustRoots` | `NoRootLeaked`, `UnwrapFindsKey` |
| `ConnectionsHold` | `Connections` | `ListedComplete`, `DeletedMeansGone` |
| `UiHolds` | `UiServer` | `BootstrapOnce`, `LimiterHolds`, `LlmConfined` |
| `MaskingHolds` | `Masking` | `NothingSensitiveLeft`, `ContentMarked` |
| `McpHolds` | `McpServer` | `TestsSpaced`, `NonceBinds`, `RunsAllowedLines`, `SessionWindow` |
| `ProxyHolds` | `ForwardProxy` | `CredentialConfined`, `CallerSecretsKept`, `LeafValid` |
| `SessionCacheHolds` | `BwSession` | `Forgotten`, `WithinTTL` |
| `DoctorTrue` | `Doctor` | `HealthyMeansUsable`, `ExitTrue`, `SummaryNamesExit` |

Checked on their own are `NonceUnique`, `CountersNeverBack`, `DestroyedForever`,
`CallsReturn`, `UsesBounded`, `NothingLost`, `GwBudgetHolds`,
`ImplementsConsent`, `AckedOnDisk`, `FsAckedHolds` and `WithdrawnKeyRefused`.
Every property has a mutant in `PROJECT.json`: an operator beside the one that
models the code, with a plausible slip in it, with which the property fails. The
type invariants of the first five modules and of `AuditLog` are theorems, that
of `VaultVersions` is part of `VersionsHold`, which is proved for one process.

Bounds are small but chosen so that limits are reached: a cache of one entry, a
use limit of two that three goroutines compete for, a nonce counter that ends, a
log that rotates through all its generations, a version list that overflows,
budgets of one and two, buffers of one and two with more events than fit, a
clock that passes every lifetime it is compared with. Symmetry is used for sets
of processes, goroutines, requests or secrets whose members are interchangeable,
never together with a liveness property. Components of one run that share no
state share model values, so that one permutation serves all of them. In
`remote_stores` Keeper is left out, because its programs are those of Proton
Pass, and only one caller lists; in `local_stores` at most one version is
destroyed (`MaxDestroys`), which is enough for a destruction that fails halfway to meet
every later operation.

Fairness appears in `keyring_calls_return` alone (section 3). Every other
property is a safety property and needs none.

`CHECK_DEADLOCK FALSE` appears where the system may stop: the bounds on time,
tokens, lines and writes end every behaviour. Deadlock of the code itself is
the subject of `keyring_calls_return` and `keyring_lock_order`.

## 17. What is proved and what is only checked

TLAPS proves, for every number of processes, goroutines, keys, tokens, requests,
paths, versions and values:

| Module | Theorems |
|---|---|
| `KeyringProofs` | nonce uniqueness, monotone counters, usable terms, final destruction |
| `PermissionProofs` | use limits of tokens and grants; revocation of tokens, if the lock on `tokens.json` works, and of grants, if one process writes; bound and integrity of the cache of provider tokens, nothing revoked is served from it |
| `AuditLogProofs` | acknowledged events stay on disk; chain and links hold; both for one process |
| `GatewayProofs` | approvals: single use, only what a human saw is served, `Consent` implemented; budget, request path, gateway process, agent sessions; masking of responses, for every document whose objects name their value once |
| `StoreProofs` | flat layout, cipher migration, keychain, vault identity; versions of a secret, for one process, a limit of at least two and one clock reading per sealing |
| `RemoteProofs` | the twelve remote backends: what a Set and a Get report, one item per path, the caches; for one writer and any readers |
| `ServiceProofs` | mint, CI identity, Bitwarden session, signed bundles, UI server, setup, run and call, forward proxy, team files and break-glass, roots of trust |
| `InterfaceProofs` | MCP server, buffers of events, installing the guard, doctor, connections |

The type correctness of `Keyring`, `GatewayToken`, `Grants`, `Approval`, `Broker`
and `AuditLog` is a theorem of its own. Every proof has
the same shape: an inductive invariant that says where each call stands, which
lock it holds and what it may rely on there; one step per action; and a frame
lemma, "process q steps to record r and the others stay", for what an action does not
touch. Each inductive invariant was checked by TLC on the instance of its run
before it was proved. The assumptions are the `ASSUME`s of the modules, which
TLC evaluates in every run, and the conditions named in the theorems
(`LockMayFail = FALSE`, `OneWriter`, `Single`, `VvOne`). The `ASSUME`s say that model
values are distinct, that bounds and lifetimes are natural numbers, and what the
code guarantees of its inputs: a cached session's ttl is at least a second, the
variables of a rule are of their own class, a bundle's version and expiry are
numbers, no MCP connection has the number zero, an allowed command prefix has no
two spaces in a row, neither the placeholder nor the label
of masking is the name of a secret, the writer of the remote stores
is one of the callers, the audit log is in a state the doctor's checks can tell
apart, and no secret field of a template is called `meta` or `custom`, which are
the model's names for entries at paths of their own.

Only checked by TLC:

* liveness (`CallsReturn`), which the prover does not cover;
* and of course the counterexamples.

Induction over data is out of the prover's reach, since none of its backends
instantiates the library's induction rule. Where one claim about a recursive
function or an index was needed (`Kept` of the audit log, `MatchRoute` of the proxy, `JoinWords` of the MCP server)
the proof takes the least number at which the claim fails, which exists because
the naturals are well-founded, and refutes it. `Masking` recurses over documents, and a
document has a level: `MkTree[n]` holds those with at most `n` levels, `MkDepth` is
the limit of the JSON decoder. `EveryLevel` carries a claim from each level to the
next, and each function of the module (`RedactValue`, `RedactInline`,
`StripFields`, `LabelFields`, and the reference `MkLeaves`) takes two: that it
exists, and what it leaves of a document. `MkDescends` is what the last three of the
former have in common: every leaf comes from a leaf of the document, under no new
name that hides a secret, as it was or redacted.

## 18. Hazards without a property

`PROJECT.json` lists the hazards that a property covers. These are real too, and
no property is stated because the code has nothing that would keep them away:

* `RotateTerm` wraps a new DEK under a KEK that another process has replaced
  (`lifecycle.go:45`), section 3;
* the lock on `tokens.json` fails and the change goes on without it
  (`store_lock_unix.go:23`), section 4;
* two decisions, or a decision and the sweep, of one pending request
  (`approval.go:370`), section 5;
* two processes rotate or prune one log (`log.go:353`, `tail.go:246`), section 8;
* a version limit of one, two clock readings, two writers of one secret
  (`versions.go:256`, `backend/file/versions.go:43`, `versions.go:140`),
  section 9;
* two processes with a manifest each (`file.go:347`); an ACL repair beside a Set
  (`acl.go:149`); the cipher migration and the keyring's counters
  (`migrate_cmd.go:363`), section 10;
* a request that opens a fresh budget window is not compared with the limit
  (`budget/counter.go:107`); the gateway calls it with an amount of one.

## 19. What is not modelled

Components without a module are listed in `PROJECT.json` with the reason.
Within the modelled ones: Windows lock files; power failures (an fsynced file
may still lack its directory entry, since directories are not synced); clocks
that go back; files edited by hand, except for approval records, `config.json`
and the settings of agents, whose owners are part of the model; byte streams,
TLS, prompts and output; cryptography, of which the modules use only that a
sealing opens with its own key, nonce and associated data.
