# A TLA+ model of djancore

djancore is a Django/DRF starter platform. Its applications (`src/apps/*`) share
one style: a view loads some rows, checks them, calls a service, and the service
saves the rows. Requests run in autocommit (`ATOMIC_REQUESTS` is not set in
`src/config/settings/base.py`), so what a request read may have changed by the
time it writes; only a few services open a transaction, and only one locks rows.
That gap between reading and writing, several processes with a cache between
them, workers that die in the middle of a batch, and clocks are what the tests of
the repository hardly reach, and what these modules are about.

`PROJECT.json` lists the runs, properties, mutants, theorems, the lines each
definition models and the hazards of the code; this file explains them.

## 1. The system

| Component (`src/apps/`) | State it keeps | Operations | What makes it correct |
|---|---|---|---|
| `notifications` | `NotificationLog` rows (status, `scheduled_for`, `is_deleted`), templates, registered providers | send, send_template, cancel, reschedule, retry, admin deletion; `process_due_notifications` in any number of workers | each due row goes out once; `SENT` is true; `PENDING` rows are somebody's; a due row does not wait for ever |
| `organizations` | organization and its owner, membership rows (soft-deletable), invitations (token, expiry) | create, edit, invite, accept, decline, revoke, set role, remove, leave, transfer, destroy, admin restore | one owner, who is a member; an invitation admits one user; closed invitations stay closed |
| `two_factor` | TOTP device (secret, confirmed, last step), recovery codes, challenge tokens | setup, confirm, challenge, disable, regenerate; the login of `iam` | no code works twice; a confirmed secret was proved; replaced codes are worthless |
| `system_config` | rows, and cached values in the Django cache | get, public dictionary, create, update, rename, bulk update, set, delete, restore, purge | the cache answers with what is stored; nothing uncommitted is cached |
| `webhooks` | endpoints (active, deleted, secret), delivery rows (status, attempt, next retry) | dispatch, ping, retry, rotate secret, edit, delete, restore, (de)activate | the delivery log is true; attempts are counted; posts are signed with the latest secret |
| `throttling` | rules, a cached list of times per rule and client; IP blocklist with cached verdicts | evaluate a request; block, unblock, rule edits | no period sees more than the limit; rejections are justified; a blocked address stays out |
| `iam` | users, groups, roles, permissions (soft-deletable), and who is attached to whom | attach and detach, edit, delete, restore; policy evaluation; login | the answer follows from the policies in force: an explicit DENY wins, no grant without ALLOW, deleted rows carry nothing |
| `api_keys` | keys (hash, prefix, expiry, activity), their roles and permissions | generate, edit, rotate, revoke, restore; authenticate and authorise a request | a scope binds; a replaced secret and a deleted key are refused |
| `audit` | append-only rows, a request context per thread | record | rows never change; entries name the right actor |
| `core` | the soft-deletion base model, responses, encryption | used by all of the above | hidden rows are hidden from every query but those that ask |

How they interact:

- The database is what they share. Only `process_due_notifications` locks rows
  (`select_for_update(skip_locked=True)`), and `update_or_create` locks the row it
  updates. Transactions are opened by the services of `organizations` and
  `two_factor`, by the batch of a notification worker, and by `update_or_create`.
- The Django cache is shared by `system_config` and `throttling`. The default is
  `LocMemCache`, one per process (`src/config/settings/base.py:107-115`).
- `iam/views.py` asks `two_factor` whether a password login needs a second factor
  and issues the challenge token. `api_keys` authenticates requests whose scopes
  `iam` evaluates. `throttling` is called by a middleware and a DRF throttle class
  for every request. `audit` is called by the services of `organizations` and
  `two_factor`, which record what they have done.
- The outside world is called in two places: notification providers (SMTP,
  Telegram) and `urlopen` of webhooks. Either may fail, time out after the other
  side has accepted the message, or never return before the process is killed.
- `dispatch_event` of webhooks is called by no code of the repository besides its
  tests: it is the interface for applications built on djancore.

Hard behaviours, by component (each is in the `hazards` list with its line):

- reading and writing a row in two steps: `cancel_scheduled` against a worker,
  `confirm` against `setup`, two transfers, two acceptances, a PATCH of an
  organization against a transfer, a PATCH of a webhook endpoint against a rotation,
  two retries of a delivery, a blocklist check against a renewal of the block;
- a batch in one transaction: a crash after some providers have accepted;
- a cache filled with what was read before an eviction, evictions before a
  commit, writes that bypass eviction, a renamed row whose old entry nobody evicts,
  a cache in each process, lists that are read and written back;
- soft-deleted rows that queries hide and unique constraints see, or that one
  query hides and another counts (the scopes of a key);
- a request that authenticates once and then asks its scopes and permissions one
  by one, while keys, policies and users change;
- several blocklist entries for one address, and their cached verdict;
- time: due times, TOTP steps with drift, challenge expiry, sliding windows and
  the rounding of waiting times.

## 2. The modules

| Module | Models | Checked by | Proved in |
|---|---|---|---|
| `NotificationLifecycle` | what the notification log promises its readers: the moves of a status, and that `SENT` was handed over | (abstract) | |
| `Notifications` | `notifications/services.py`, its views, the worker command, the providers' answers | `MCNotifications` | `NotificationsProofs` |
| `InvitationLifecycle` | what the invitations promise: sent once to one address, replaced by the next one sent there, closed for good, a way in only until they lapse | (abstract) | |
| `Organizations` | `organizations/views.py`, `services.py`, the invitation's methods, the admin's restore | `MCOrganizations` | `OrganizationsProofs` |
| `TwoFactor` | `two_factor/services.py`, `models.py`, `totp.py`, the challenge of its views and the login of `iam` | `MCTwoFactor` | `TwoFactorProofs` |
| `SystemConfig` | `system_config/services.py`, `models.py`, the serializers' updates and renames, soft deletion by QuerySet | `MCSystemConfig` | `SystemConfigProofs` |
| `Webhooks` | `webhooks/services.py`, `models.py`, `views.py`, the admin's actions | `MCWebhooks` | `WebhooksProofs` |
| `RateLimiter` | `throttling/engine.py` and `evaluate_request` | `MCRateLimiter` | `RateLimiterProofs` |
| `IPBlocklist` | `throttling/services.py` (the blocklist), its views and admin, the check of the middleware | `MCIPBlocklist` | `IPBlocklistProofs` |
| `Policies` | `iam/services.py`, the views and admin forms that attach, detach, edit, delete and restore | through `APIKeys` | `APIKeysProofs` |
| `APIKeys` | `api_keys`, and `iam/permissions.py` for requests made with keys | `MCAPIKeys` | `APIKeysProofs` |

`Policies` has state and actions but no specification of its own: `APIKeys`
extends it, takes its steps as one of the things that happen while a request is in
progress (`ChangePolicy`), and evaluates its operators for key and user. That is
how `api_keys` meets `iam` in the code. The other applications meet only in
database tables each owns, so their modules have no variable in common; soft
deletion, which is in `core`, appears in each as the rows it hides.
`Notifications` implements `NotificationLifecycle` by a refinement mapping
(`ImplementsLifecycle`, with the committed statuses as `status`), and `Organizations`
implements `InvitationLifecycle` likewise, with the statuses and addresses of its
invitation rows.

### Conventions

A request thread is a record of what it has read and is about to do; a step
between two accesses to shared state is an action. Where a service runs in one
transaction and its writes meet at one row, writes and commit are one action. A
killed process is an action that forgets the thread's record and rolls back what
was not committed. History variables (marked so) record what the program does
not: what a provider accepted, who has been owner, how often a code was taken,
and whether two requests have ever been in progress together (`overlapped`).

`overlapped` splits the safety properties in two. Some hold *whatever races*.
Others the code keeps only *as long as requests do not overlap*, since nothing
locks: they are stated as `~overlapped => ...`, which still covers every sequence
of operations, expiries, crashes and clock steps. Where a document or a comment of
the repository promises such a property without that condition, a separate run
shows how overlapping requests break it (section 4).

Operators named in a comment as "Mutant of ..." are not part of the model: each
is a plausible bug (a dropped guard, a missing reset) and a property above it is
known to fail when it replaces the original.

### Notifications

`log` and `deleted` are the committed rows. A client goes through `dispatch`
(the row is stored, the provider not yet called) and `save`; `Cancel`,
`Reschedule` and `RetryFailed` are the reads of the three service methods and
`ClientSave` is the `save(update_fields=...)` that overwrites whatever is there,
after waiting for a worker's lock. A worker's `Fetch` is the locking query with
its order and batch size, `WorkerDispatch` one `_dispatch_log`, its update
invisible until `Commit`; `Abort` is a crash or a database error. A provider's
reply `LOST` is a message that was accepted although the call raised.

### Organizations

One organization. Each request is a read (`Invite`, `Accept`, ...: visibility,
permissions, the row found) and a write (`InviteWrite`, ...: one transaction).
Membership rows that are soft-deleted (`left`) are invisible to queries and are
still covered by the unique constraint, which `AcceptWrite` meets. BILLING and
VIEWER are treated as MEMBER. A PATCH (`Update`, `UpdateWrite`) is modelled by what
its `save()` writes beside the name and the settings: the owner it has loaded, and
that the organization is not deleted. `InvitationLifecycle` is what is left of the
invitations when requests, rights and members are forgotten. It is weaker than a
state machine over single requests would be, and it has to be: an acceptance that
read `PENDING` overwrites a revocation that came in between, so only `ABSENT` and
`PENDING` are states that nothing returns to.

### TwoFactor

One account. A code stands for what it proves: its secret and time step, or its
batch and number. A request with a code is a check (`ConfirmDevice`, `VerifyCode`)
and a write (`ConfirmWrite`, ...). `clock` counts 30-second steps. Confirming a
device that is already confirmed returns success without looking at the code and
changes nothing, so it does not count as taking one.

### SystemConfig

A value is the number of the write that stored it, and `id` tells a row by the
write that created it, since an update may rename it. Rows and cache entries are
written by separate actions; `SetConfig`/`SetCommit` is `update_or_create`, whose
`save` evicts inside the transaction; every other write commits first, and all but
creation and `set` have read the row before (`ReadRow`): `UpdateWrite` is the save of
all columns, the key among them, by a PUT, a PATCH, an item of a bulk update or the
admin's form; `FlagWrite` is `delete()` and `restore()`. `DeleteSelected` is the
deletion through a QuerySet, which evicts nothing. `Expire` is the cache's 24-hour
timeout. The cache has an entry for each key and one for the dictionary of public
values, `system_config:all_public`; a key `all_public` would have the same entry, and
nothing forbids one, so `Keys` may contain it. `log` (the key of each write) and
`bypassed` (entries whose rows have changed without an eviction: what a rename or a
bulk deletion leaves) are history. `SharedCache` says whether there is one cache or
one for each process.

### Webhooks

One endpoint. A request carries the copy of the endpoint it loaded and of the
delivery it is about; `SaveOutcome` writes every column of that copy, `RetrySave`
only two, `SaveEdit` every column of the endpoint. The payload and the signature
are left out: a post is told apart by the secret it is signed with. The endpoint's
`max_retries` is constant. Killing a request also stands for an exception outside
the `try` of `deliver_webhook`.

### RateLimiter

One client, any rules, in the order of the query. `Request` takes the time,
`Pass`/`Reject` read the list of the current rule, `Record` stores the new list
and goes on to the next rule. Earlier rules have recorded the request even if a
later one rejects it, as in the code. Lists time out `Buffer` ticks after the
period, counted from `cache.set`. The clock may pass between `time.time()` and
`cache.get` by at most `MaxDelay`, which the assumption keeps within the buffer (10
seconds in the code); between `cache.get` and `cache.set` it may pass without
limit. Identity resolution and pattern matching are the choice of the set of rules
a request meets. `passes` is history: for each rule the log of the times of all
requests it recorded, from which nothing is ever dropped. The list comprehension of
the code is a function defined along the positions of the list (`InWindow`).

### IPBlocklist

One address, any number of entries: the column is not unique, and
`update_or_create` looks before it inserts. `Caches` and `CacheOf` say which cache a
request meets: one for all with Redis, one for each process with the default
`LocMemCache`. A check is a miss in its cache (`CheckMiss`), the SELECT (`Query`), the
judgement of the copy by the clock (`Judge`), possibly the deactivation of an expired
entry, and the storing of the verdict; each is an action, and the entry may be renewed
between any two. `block_ip` is `Block`, then `BlockUpdate`, or `BlockMiss` and
`BlockInsert`, or `BlockAmbiguous` (it raises), then `BlockCache`. `Create` is
`perform_create`, which inserts a row and then calls `block_ip` without a duration.
`Unblock` deactivates every entry, `UnblockCache` drops the verdict, `SoftDelete`
ends a deletion. An edit is a read and a save of all columns, which touches no
cache; nor does `AdminAdd`, the admin's form for a new entry, which also stands for an
edit that moves an entry to this address. `held`, `promise` and `confirmed` are
history: the entry `block_ip` has written, as long as nobody edits, unblocks or
deletes it or was already about to judge, change or delete a copy of it; and the
caches that, when `block_ip` returned, held no pass and had no check under way that
had read the table earlier. That of its own process has just been written; those of
other processes are among them or not.

### Policies and APIKeys

Permissions, roles and groups all exist from the start; something new is something
nothing is attached to. A permission covers the action in question or does not, and
allows or denies; an edit may change both. Deletion hides a row and keeps what is
attached to it. Editing a row is a read and a save of all columns, which brings a
row back that was deleted in between.

A secret is the number under which it was generated and stands for prefix and hash
together. Creating a key writes the row, the roles and the permissions by three
statements and returns the secret after the last; a PATCH writes the row it read,
then the roles, then the permissions; the admin's form writes all in one
transaction; rotation, deletion and restoration save single columns. Any of these
may stop between two statements (`Fail`). A request is `Authenticate`,
`RecordUsage`, two questions if it goes to a view that manages scopes
(`ManageGuard`), the decision of the key's own permissions, the question whether
the key has scopes (permissions first, roles after), and the decision of the
user's permissions. `has_scopes` counts deleted rows and the effective permissions
do not: a key whose scopes are all deleted is refused, not unscoped. A request that
authentication refuses changes nothing and is left out. The history variables say
which secrets and keys were replaced or deleted while no edit held a copy (`dead`,
`revoked`), the scopes a key was created with (`wanted`), and for each request the
part of the scope nobody has touched since it began (`solid`) and whether nothing
at all has changed (`calm`).

## 3. The runs that pass

Symmetry sets are declared in the MC modules, never in a run that checks
liveness. `CHECK_DEADLOCK FALSE` is set throughout: nobody has to send a request,
and the bounds end every behaviour.

| Run | Instance | What it shows |
|---|---|---|
| `notifications_safety` | 2 rows, 2 workers, 2 clients, batches of 2, 2 time steps, 4 requests, 1 crash (465,769 states) | claims are exclusive and nothing slips under a claimed row (`ClaimsHold`); workers dispatch a row once for each time it was scheduled or rolled back after dispatch (`DispatchedOncePerChance`); `SENT` is true (`SentWasDelivered`); `PENDING` is somebody's (`PendingHasOwner`); the service implements `NotificationLifecycle` |
| `notifications_live` | 2 rows, one without a provider, 2 workers, batches of 1, 1 crash (37,500 states) | a due row does not stay due (`DueIsHandled`) |
| `organizations` | 3 users, one of them staff, 2 invitations, 2 threads, 4 requests (214,401 states) | the role OWNER is gained by transfer only (`OwnershipTraceable`), the invitations implement `InvitationLifecycle`, so that closed ones stay closed (`ImplementsLifecycle`); without overlap one owner (`OneOwner`), one user per invitation (`SingleUse`), one pending invitation per address (`OnePendingPerAddress`) |
| `two_factor` | 2 threads, 2 secrets, 3 batches of 1 code, 3 time steps, 4 requests | without overlap no code is taken twice (`AcceptedOnce`), a confirmed secret was proved (`ConfirmedWasProven`) and codes of a replaced batch or secret are worthless (`OnlyCurrentCodes`); whatever races, a recovery code is taken at most once per thread (`RecoveryRaceIsBounded`) |
| `system_config` | the keys `k1` and `all_public`, 2 processes, one shared cache, 3 writes (352,947 states) | without overlap what is cached is what is stored, but for what a rename or a bulk deletion leaves (`FreshWhenSerial`); whatever races, only committed values are cached (`NothingUncommitted`), and with the cache's timeout stale entries die out (`SettlesFresh`) |
| `webhooks` | 2 deliveries, 2 threads, 2 retries, 2 rotations, 5 requests, 1 crash (370,604 states) | `SuccessWasAccepted`, `PendingHasSender`, `ScheduleIsSound` whatever races; `AttemptsCounted`, `SecretIsLatest` without overlap |
| `rate_limiter` | a rule of 1 in 1 second and one of 1+1 in 3 seconds, 2 ticks to a second, 2 threads, 8 ticks, 3 requests (3.8 million states) | without overlap no period exceeds the limit, wherever it begins (`WithinLimit`); whatever races, a rejecting rule has really let its limit pass (`RejectedOnlyWhenFull`) and the announced wait is enough but for the second it is cut by (`RetryAfterSuffices`) |
| `ip_blocklist` | one address, 1 check, 2 members of the staff in 2 processes with a cache each, 2 entries, 1 time step (406,759 states) | a block that nobody lifts stays as written until it expires (`BlockSurvives`); once confirmed it is what the table and every cache without an older verdict answer (`ConfirmedBlockIsEnforced`); once the table keeps its verdict the caches do not keep the other (`CacheFollowsTable`) |
| `api_keys` | 1 key, 2 members of the staff, 1 request, 1 user with a role and a group, 2 permissions, 2 secrets, 3 changes (1.7 million states) | replaced secrets and deleted keys are refused (`RevokedIsRefused`); a scope that stays attached binds every request (`ScopeBinds`); a request during which nothing changes gets the documented answer (`CalmAnswerIsRight`) |

Why the bounds are enough. The races are between two actors at one row, so two
threads, two workers and, where something is chosen among rows, two rows show
them; a third user is needed in `organizations` for a bystander who is staff. The
number of requests is the smallest that lets every scenario of the hazards happen
(send, cancel and reschedule a row while a worker holds it; transfer, leave, accept
and transfer back; setup, confirm, take a code and replace the batch). One crash
suffices because crashes share no state. In `rate_limiter` the time bound exceeds
the longest period plus its buffer, and three requests exceed either limit. In
`system_config` two keys let a row be renamed, also to the name the dictionary's entry
has, and three writes are a creation, a rename and one more. In
`ip_blocklist` a second entry for the address is what makes them ambiguous, two
members of the staff race with each other, one in the process of the check and one
in another, and one tick lets an entry expire between the SELECT and the judgement. In
`api_keys` three changes are a creation, a rotation or deletion, and a change of
policy or an overlapping edit; the start gives the user a permission along the
longest path (group, role, permission), and the second permission denies. Every
property but those section 5 lists as only model-checked is also proved without
any bound.

Fairness. `DueIsHandled` assumes weak fairness of each worker's
fetch-dispatch-commit: the daemon loop of the command runs for ever, and the
component's README offers cron as the other way of running it, so a command that
was killed is run again. No fairness is assumed of clients, crashes or the clock. A
row may become due and be revised or deleted instead; the property says that it
leaves the set of due rows. `SettlesFresh` assumes that a call which has begun
goes on, and that each cache entry expires some time after it was stored, as its
timeout says. It assumes nothing of readers or writers. `CacheFollowsTable`
assumes the same of checks and calls that have begun and of the cached verdicts,
which `cache.set` stores for 60 seconds; nobody has to begin anything, and the
clock may stop.

## 4. Where the code departs from its documents

These runs check one property each, and TLC finds it violated.

- `notifications_cancel`: "Only SCHEDULED can be cancelled"
  (`notifications/services.py:184`). The check is made on a row read earlier; a
  worker may send the row in between, and the cancellation overwrites `SENT`.
- `organizations_rejoin`: an accepted invitation is to "create or reactivate" the
  membership (`organizations/models.py:246`). `get_or_create` does not see the
  soft-deleted row of a user who has left, the unique constraint does, and every
  acceptance fails.
- `two_factor_replay`: codes are not to be used twice (`two_factor/README.md:17`).
  Two requests that check a code before either stores its use both succeed.

Also met, and not given a run:

- `retry_failed` and `retry_delivery` dispatch rows of any status though their
  docstrings speak of failed (or cancelled) ones.
- "Invalidated on write" (`system_config/services.py:8`): a reader that queried
  before a write fills the cache after its eviction, and a transactional `set`
  evicts before it commits. Even without overlap, an update that renames a row evicts
  the entry of its new key only; the old key's goes on answering for up to a day, and
  `purge_cache` has no row to find it by. `FreshWhenSerial` and `SettlesFresh` say what
  is left.
- A configuration whose key is `all_public` shares the entry of the public
  dictionary: `get` answers with the dictionary, or `get_public_configs` with the
  value.
- A PATCH of an organization's settings saves all columns, the owner and `is_deleted`
  included: it undoes a transfer or a deletion that came in between.
- After `block_ip` has returned, another process with a cache of its own
  (`LocMemCache`, the default) goes on letting the address pass for up to 60 seconds.
- A check that has read an entry before it is renewed may find the copy expired after
  the renewal, and deactivate the renewed block. `BlockSurvives` exempts just that.
- A PATCH of a webhook endpoint saves all columns of the row it loaded, the secret
  included, and undoes a rotation that came in between (`webhooks/views.py:127`
  speaks of invalidating the previous one). A PATCH of an API key does the same to
  the hash of a rotated key and to `is_deleted` of a revoked one:
  `RevokedIsRefused` exempts just those.
- POST of a blocklist entry with an expiry makes it permanent:
  `throttling/views.py:135` calls `block_ip` without a duration, which writes
  `expires_at = None`. Two living entries of one address make every later
  `block_ip` fail with `MultipleObjectsReturned`.
- A PATCH that moves a key's scopes from roles to permissions passes a moment
  without any, in which a request that asks is not bound by the key.
- `is_system` roles are called immutable and nothing in the views refuses to edit
  them.

## 5. What is proved

The theorems hold for all values of the constants that satisfy
`ConstantsAssumption` of the module: any number of rows, users, threads, workers,
requests and crashes, and any assignment of requests to caches. The assumptions say that bounds are naturals, that a "none"
value is not a member of the set it extends, and that a batch and a set of codes
are not empty; `TwoFactor` takes the set of threads to be finite, since a property
counts them, and `APIKeys` the kinds of policy items to be disjoint. `RateLimiter`
excludes rules whose limits are both 0 and delays longer than the buffer, as above.

**NotificationsProofs.** `TypeCorrect`, `ExclusiveClaims`, `OneDispatchPerChance`,
`SentIsTrue`, `PendingIsOwned`, `RefinesLifecycle`. None of the properties is
inductive by itself. `IInv` adds: a worker has outcomes for rows of its batch only
and a stored `SENT` outcome was delivered (`OutcomesOwned`); a request about to
save `SENT` has delivered, and one about to revise a row found it outside
`PENDING` (`RequestsSound`); a scheduled row that no worker has attempted has a
dispatch left (`ChancesCover`). The refinement maps each action to an action of
`NotificationLifecycle` or to a stutter: `Commit` to `Report` of the whole batch,
`ClientSave` to `Report` of one row or `Revise`.

**OrganizationsProofs.** `TypeCorrect`, `OwnershipIsTraceable` (whatever races: the
owner a PATCH has loaded was made owner, and has a membership row)
and `ExactlyOneOwner`. For the last, `ReadsStillHold` says that without overlap
the one request in progress still finds what its read found, so its write is
judged by the guards of its read. A last layer is about invitations.
`RefinesLifecycle` holds whatever races: the row a request is about to store is known
to no other (`InvitesAreNew`), an answer or a revocation is about a row that was
stored (`AnswersAreToSent`), so each write is `Send`, `LetIn`, `Decline` or `Revoke`
and everything else a stutter. `ClosedInvitationsStayClosed` is read off the abstract
actions and so holds of the code's. `InvitationsAreSingleUse` and
`OneInvitationPerAddress` need that, without overlap, an answer finds its
invitation still open and one that has let somebody in is closed
(`AnsweredIsClosed`).

**TwoFactorProofs.** `TypeCorrect`, `NoCodeTwice`, `ConfirmedIsProven`. `IInv`
adds that the check of the one request in progress still holds
(`CheckStillHolds`) and that a code taken is spent: its step is not after the
device's last one, its secret was replaced, or it is marked used (`TakenIsSpent`);
`OnlyCurrentCodesAreTaken` follows from the former. `RecoveryRacesAreBounded` has an
invariant of its own, `TakersAreHolders`: the times a used code was taken and the
threads that still hold it are together no more than the threads there are.

**WebhooksProofs.** In two layers. `RaceInv` holds whatever races: beside the
types it says of the copies in flight that an outcome about to be saved is true of
its delivery (`CopiesTruthful`), from which `SuccessIsTrue`, `PendingIsOwned` and
`SchedulesAreSound` follow. `SerialInv` holds without overlap: at most one request
is in progress, its copies are those of the rows, and the attempt of a row is
ahead of the calls made by one exactly while a post is to come (`TriesCounted`).
It gives `AttemptsAreCounted` and `SecretIsTheLatest`.

**SystemConfigProofs.** `TypeCorrect`; `CachedIsCommitted`, whatever races, since rows
hold committed values and so do the copies of readers (`CommittedInv`);
`SerialCallsStayFresh`, since there is one call at most (`OneCall`) and every entry
but those in `bypassed` is right or about to be evicted by that call, which may count
on what it has read (`FreshButEvicted`). A key `all_public` needs no case of its own:
an entry is right (`Right`) with anything that one of those who fill it would store.
`OnlyWritesMakeStale` is the safety half of `SettlesFresh`: whatever races, an entry
that is right in every cache, and in every call about to fill it, stays right until a
step changes what is stored for it. Leaving out the calls about to fill makes it
false: that is the reader overtaken by an eviction.

**IPBlocklistProofs.** `TypeCorrect`, `BlocksSurvive`, `ConfirmedBlocksAreEnforced`,
all whatever races and for any assignment of requests to caches. The block on record
is a living entry that, until it expires, is active; a check about to judge it holds
the expiry it has, and none is about to deactivate it (`HeldIsKept`). A confirmed one is
the only living entry, and nothing cached or under way would answer "allow" where it is
confirmed (`ConfirmedIsAlone`). `AgreementLasts` is the safety half of
`CacheFollowsTable`: once the cached verdicts, the checks and the staff agree with the
table (`AgreeOn`), no step parts them while the table keeps its verdict. It has two
exceptions, without which TLC finds counterexamples: a block that is written after its
own expiry (`BlockedTooLate`), which `block_ip` caches all the same, and the expiry of a
copy that a check has read and not yet judged (`CopyRunsOut`), while the entry itself
may have been renewed.

**RateLimiterProofs.** `IInv` holds whatever races: a request took its time in the
past and, until it reads the list, not longer ago than the delay the assumption
bounds (`Working`); no list is longer than the limit (`ListsAreBounded`); and every
entry of a list is a request that was recorded, each entry another one, but for the
last of a list about to be stored (`EntriesArePasses`, an injection of the list into
the log). It gives `TypeCorrect`, `RejectionsAreJustified` and `WaitingIsEnough`: lost
updates make lists shorter, never longer. `SerialInv` adds what holds without overlap:
one request is at work (`OneRequest`), the log is in the order of its times
(`PassesArePast`, `PassesInOrder`), a list is the end of the log and what it has dropped
had left the window (`NothingForgotten`; this is where the buffer matters, since a list
may time out only when all of it has left the window), and so a period lies between a
pass and the one a whole limit later (`Spaced`). `LimitHolds` follows by counting:
more passes than the limit in one period would include two that are a limit apart.
`AdmissionsAreExact` says that nobody is let past by what the cache has forgotten. What the filter computes is proved by taking the first position at which
it would fail (`LeastNat`, from the library's well-foundedness of `<`).

**APIKeysProofs.** `TypeCorrect` includes that of `Policies`. `RevokedStaysRefused`
rests on secrets being generated once: each is held by one key, by its row or by the
copies of edits, and by none once it is dead (`WorkHasSecret`, `SecretsApart`,
`RevokedIsGone`). `ScopesBind` rests on what was asked for being attached before
anybody has the key (`WantedIsSet`), and on each stage of a request having seen the
part of the scope nobody touched (`SolidIsAttached`, `Seen`). For
`CalmAnswersAreRight`, `Learned` says what an undisturbed request knows at each
stage, and two lemmas (`KeyMayIsDecision`, `UserMayIsDecision`) that the queries and
loops of the code decide as the documented rules do, for any policies.

**Only model-checked.** Liveness (`DueIsHandled`, `SettlesFresh`,
`CacheFollowsTable`), which is beyond the prover. Of the last two the safety half is proved,
as above: what remains to fairness is that stale copies and entries go away. Every
other property of a passing run is proved.

## 6. What is not modelled

- *notifications*: templates and their rendering, hand edits of a log in the admin.
- *organizations*: names and settings (their PATCH is, for the owner it writes), `is_active`, switching, the tenant middleware,
  hand edits in the admin; creation is the initial state.
- *two_factor*: hashing, encryption and QR codes; deletion and edits of devices and
  codes in the admin. Two time steps whose codes are equal by chance are different
  codes. Deadlocks that PostgreSQL resolves by aborting one request are that
  request not having been made.
- *system_config*: casting, encryption, toggles of `is_public`; a run with one cache
  per process (`SharedCache = FALSE` is in the module, and the theorems cover it).
- *webhooks*: who may see an endpoint, signatures, hard deletion in the admin,
  edits of `max_retries`, URL and subscriptions. Nothing in the code reads
  `next_retry_at`, so there is no automatic retry to model.
- *throttling*: edits of rules and their 300-second cache, caches that drop entries
  early, rules whose two limits are both 0 (they raise `IndexError`), and the unused
  `reset`. An edit of an entry's address is a deletion for
  the address it leaves and an insertion for the one it comes to, where it is taken to
  be the newest entry though its `created_at` may be older.
- *iam*: registration, profile and password changes, matching of actions and
  resources against patterns (a permission covers the action or not). A user's own login is in `TwoFactor`.
- *api_keys*: the address filter and `rate_limit`, which nothing enforces, and giving
  a key to another user in the admin's form. Hashing is
  what it is for: only the right secret is accepted.
- *audit*: entries refuse `save` on an existing row and `delete`, and nothing but
  the views that list them reads them. `AuditableModelMixin` is inherited by no model of
  the repository; the services of `organizations` and `two_factor` call
  `AuditService.record` after the write it reports. The context of a request is a
  context variable of its thread, set and cleared by one middleware. That the
  middleware resolves the actor before DRF authenticates (so that requests with a
  key or a token are recorded as anonymous unless the caller names the actor) is a
  fact about one sequence of calls, which a model could only restate.
- *core* beyond soft deletion, settings, URL routing and API documentation change no
  state.

## 7. Plan

What is left, ordered by what matters most.

1. Edits of throttling rules against their cached list, composed with `RateLimiter`:
   a request may be judged by rules up to 300 seconds old.
2. `SystemConfig` with a cache per process as a run of its own, and partial bulk
   updates with a batch identity.
3. The rules about pattern matching in `iam`, as operators checked against a
   reference definition over short patterns.
