# OpenScienceFramework: specifications, model checks and proofs

TLA+ models of the parts of the Open Science Framework where several people, scripts, services and
processes change the same rows: the sanctions and moderation of registrations, the archiver that
copies a registered project, the reviews and withdrawals of preprints, the contributors of a resource,
the accounts, their addresses and their merging, the files of OSF storage, and the tasks a request
leaves to be done after it. TLC checks them on small instances; TLAPS proves, for every value of the
constants, every invariant and action property that TLC checks.

    tlc -config sanctions_moderated.cfg MCRegistrationSanctions.tla
    tlc -config archive_serial.cfg MCArchiveTree.tla
    tlc -config preprint_reviews.cfg MCPreprintReviews.tla
    tlc -config request_tasks.cfg MCRequestTasks.tla
    tlc -config contributors_serial.cfg MCContributors.tla
    tlc -config storage_serial.cfg MCFileStorage.tla
    tlc -config accounts.cfg MCAccounts.tla
    tlapm RegistrationSanctions_proofs.tla      (and the other modules named *_proofs)

## 1. The system

### Components

| Component | State it keeps | Operations | What makes it correct |
|---|---|---|---|
| Sanctions (`osf/models/sanctions.py`, `osf/utils/machines.py`, `osf/utils/workflows.py`) | `state`, `approval_state` of a RegistrationApproval, Embargo, Retraction, EmbargoTerminationApproval | approve, accept, reject by token, by moderator, by script; forcible rejection | no admin is skipped; what an approval promises happens with it; closed sanctions stay closed |
| Registrations (`osf/models/registrations.py`) | the four sanction links, `is_public`, `is_deleted`, `moderation_state`, registration actions | request approval, embargo, early termination, withdrawal; expire the embargo; derive the moderation state | an embargo is honoured; the stored state agrees with the sanctions |
| Sanction cron jobs (`scripts/*_registrations.py`, `scripts/approve_embargo_terminations.py`) | none | nightly acceptance after two days, expiry of embargoes, clean-up | nobody waits for ever; a failure for one registration leaves something the next night can finish |
| Archiver (`website/archiver`, `osf/models/archive.py`) | ArchiveJob, ArchiveTarget of each node | stat, copy requests, callbacks, success and failure | the admins are asked exactly about what was archived completely; every finished tree is reported |
| Nodes (`osf/models/node.py`, `osf/models/mixins.py`) | the tree, links, contributors, tags, privacy | create, fork, template, link, register, delete, set privacy | trees stay trees; every node keeps an admin |
| Preprints (`osf/models/preprint.py`, `ReviewsMachine`) | `machine_state`, publication, withdrawal | submit, accept, reject, edit comment, withdraw | publication agrees with the review state of its workflow |
| Requests (`osf/models/request.py`) | `machine_state` of access and withdrawal requests | submit, accept, reject | a decision takes effect once |
| Contributors and groups (`osf/models/mixins.py`, `osf/models/contributor.py`, `osf/models/osf_group.py`) | rows, visibility, groups of a resource, unclaimed records | add, update, remove, manage, reorder, claim | a registered admin and a visible contributor remain |
| Users and sessions (`osf/models/user.py`, `framework/auth`, `api/institutions`) | username, confirmed addresses, links to follow, external identities, merges, suspension | register, invite, claim, sign on, confirm, link, merge, disable, delete | an active account is the one its username finds; an identity has one owner; nothing leads to a merged account, until an administrator merges another into it |
| OSF storage and files (`addons/osfstorage`, `osf/models/files.py`) | the file tree, versions, blobs, checkout, region, quota cache | upload, move, copy, delete, purge, check out | a file checked out is changed by its holder only; what is live is there |
| Task queues (`framework/celery_tasks`, `framework/postcommit_tasks`) | thread-local queues of a request | enqueue, run after commit, drop on rollback | nothing runs for a request that rolled back; what was answered gets done |
| Add-ons and OAuth (`addons`, `osf/models/external.py`) | accounts, grants, tokens | authorise, refresh, revoke | a revoked account serves no node |
| Wiki and comments | versions; threads, unread counts | edit, rename, delete; reply, report | versions are linear |
| Collections and subjects | memberships, taxonomies | collect, remove | |
| Spam detection (`osf/models/spam.py`) | `spam_status`, `spam_data` | check, flag, confirm spam or ham | |
| Notifications and queued mail | subscriptions, digests, queued mails | subscribe, queue, send, remove | a mail still holds when it is sent, and is sent once |
| Identifiers, institutions, SHARE and search, metrics | DOIs, affiliations, indexes | mint, update, push | |
| API v2, admin application, web site, commands | none of their own | requests that call the models | permissions |

### Interactions

A registration is created with a RegistrationApproval or an Embargo, and `after_register` enqueues
the archiver's celery chain. WaterButler answers each copy with a signed request
(`registration_callbacks`). When the whole tree is finished, `archive_success` asks the root's sanction
to mail its tokens, or `handle_archive_fail` rejects the sanction and deletes the tree. The admins
answer tokens; a unanimous answer accepts the sanction, which goes to the provider's moderators or
takes effect; the moderators decide through `RegistrationAction`s of API v2; every night four celery
beat jobs accept what has waited two days and end embargoes. Every transition derives the
registration's `moderation_state` from its *active* sanction, the newest kind present. Making a
node public, minting a DOI, spam and ham all reach into the same rows.

Every request runs in a transaction, of Flask's handlers or of Django's, and fills two queues of its
thread. Saving a node queues the update of its search index; removing a contributor or deleting a node
queues, as a post-commit task, the check-in or the deletion of files. WaterButler asks `get_auth` for
leave, stores the content, and calls a hook of OSF storage that records what it did. Merging, deleting
or suspending an account rewrites rows of every resource it contributes to.

A person reaches an account by its username, by an address it has confirmed, by an external identity
or through an institution, and it is `get_user` that decides which account that is. Addresses and
identities are confirmed by links in mails; a confirmation merges whoever had the address before.

### What is hard

* Sanctions overlap. A withdrawal or a termination can begin while an embargo is pending, queued
  or active, and hides the sanction beneath it.
* The scripts act on what admins and moderators are answering, retry every night, and swallow
  exceptions inside `transaction.atomic()`, which commits what had been written before the failure.
* A method saves its whole row from its own copy of it, older than the one another method saved.
* Archiver callbacks, tasks and the chain overlap, under READ COMMITTED and with a lock on the
  node only; several of them write the same job.
* A copy WaterButler refuses, or answers too late, is never called back for.
* A preprint is loaded by some API requests with SELECT ... FOR UPDATE and by others without, and
  each saves the whole row; accepting a withdrawal request nests a transition of another object.
* The two frameworks end the transaction, serve the queues and drop them in different orders and from
  different statuses on.
* At least five places check, each in its own way, that an admin is left, and write later.
* Accounts begin in five ways (registration, invitation, external identity, an institution, a claim) and each
  may meet, for the same address, what the others have left half finished.
* Versions and blobs are shared between copies; checkouts, moves, deletions and tasks meet on one
  file or on a folder above it.

`PROJECT.json` lists these, each at its line, with the properties that would catch it.

## 2. The modules

### RegistrationSanctions

One root registration. `state[kind]` is the sanction's `state` column (or "none" when the link is
NULL), `approvals[kind]` the users whose `has_approved` is set, `public`, `deleted` and `spam`
the registration's flags, `moderation_state` the stored column, `last_trigger` the newest
`RegistrationAction`, `archive` how far the archiver is, `due` the periods that have run out
(two days for each sanction, and the embargo's end date). The state of the registration at its
creation (`Init`) is an approval or an embargo, unapproved.

| Actions | Code |
|---|---|
| `ApproveByToken`, `RejectByToken` | `sanction_handler`, `TokenApprovableSanction` |
| `ModeratorAccept`, `ModeratorReject`, `ForceWithdraw` | `RegistrationActionSerializer`, `Registration.retract_registration` |
| `RequestWithdrawal`, `RequestEmbargoTermination`, `MakePublic` | API v2 and `set_privacy` |
| `AutoApproveRegistration`, `AutoRejectDeleted`, `AutoApproveEmbargo`, `ExpireEmbargo`, `AutoWithdraw`, `AutoTerminateEmbargo` and the `...Fails` forms | the nightly scripts; the `Fails` forms are what their `except` commits when the DOI is refused |
| `ArchiveAdvances`, `ArchiveFails`, `RemoveStuck`, `ConfirmHam`, `PassTime` | the archiver as the sanctions see it, the admin application, time |

`Accept`, `Complete`, `Reject`, `UpdateModerationState`, `ActiveSanction` and `Derived` are the
state machine's own steps, each called by the actions above as the code calls them, in its order. An
action is one transaction. What is merged: intermediate moderation states written and
overwritten inside one transaction when they leave no action behind. What is abstracted: the
components of the tree (they are published with the root, and may be what makes the publication
fail), mails, logs, the text of actions. `registered_from` is NULL exactly when `deleted` holds
by a rejection. A retraction or termination that another replaced is inert and is forgotten.
`for_existing_registration` embargoes have no caller in production. Spam: with
`SPAM_FLAGGED_MAKE_NODE_PRIVATE` false, the flag matters where `_on_complete` and `set_privacy` read it.

### ArchiveTree and ArchiveProgress

The tree of registrations `Nodes` with `Parent`, the archivable `Addons` of each. `target` and `job`
are the *committed* rows. The chain's task is `task`; `copies` are the requests WaterButler has not
answered; `callback[n]` is the open transaction of node n's callback, with the job rows it loaded and
those it has written; `queued` and `sending` are the `archive_success` tasks before and after they read
`sent`, with the row they loaded, and `asking` counts those that have saved it and not yet mailed. `asks` and
`failed` are the two outcomes; `lost` says that a task died between the two.

A callback is `CallbackLoads` (the lock on the node, the read of its job), `CallbackSaves` (the full
rows of its job and its parent's, behind the locks of other writers), `CallbackChecks` (the listener,
seeing its own writes and the committed rows; a task it queues is published at once) and
`CallbackCommits`. `CallbackExpired` is one refused for its signature. Celery tasks commit each save.
`Concurrent = FALSE` lets nothing begin before what has begun is over: it is the regime the tests run
in, and the run that has it is about the algorithm, the concurrent one about the locking.

Every node has at least the `osfstorage` target, so the branch without targets is unreachable.
Not modelled: a callback delivered twice; the admin's restart and removal of stuck archives; what
`migrate_file_metadata` rewrites (only that a file may be missing). Reporting a failure twice
writes what is already there. A worker may die, or a mail fail, between the save of `sent` and the last mail
(`AskingBreaks`), some admins having been asked or none; `on_failure` then finds `sent` set and says nothing.
Elsewhere workers do not die.

### PreprintReviews

One preprint of one provider, and the requests to withdraw it. `preprint` is the committed row (review
state, publication, `ever_public`, `date_withdrawn`), `subjects` whether it has one, `request[r]`
the state of the withdrawal request r (one per admin), `grants` how many `PreprintRequestAction`s
went from pending to accepted, `reviewed` whether a `ReviewAction` accepted the preprint, `notified`
what the last withdrawal told the contributors. `reviews_workflow` is the provider's; it does not
change.

`serving[w]` is the API request a worker has open, with the row it loaded. Every request is two steps,
what loads and what commits, so that everything can happen in between:

| Loads | Commits | Code | Lock on the preprint |
|---|---|---|---|
| `PatchLoads` | `EditCommits`, `PublishCommits` | `PreprintSerializer.update`, `set_published` | `get_preprint`, FOR UPDATE |
| `ReviewLoads` | `ReviewCommits`, `WithdrawCommits` | `ReviewActionSerializer.create` | none: `Preprint.load` |
| `CommandLoads` | `WithdrawCommits` | `withdraw_all_preprints` | none |
| `AskLoads` | `AskCommits` | `PreprintRequestCreateSerializer.create` | `get_target`, FOR UPDATE |
| `DecisionLoads` | `GrantCommits`, `DeclineCommits`, `CommentCommits` | request actions of the API and of the admin application | none |
| | `RollsBack` | an invalid trigger, a refused publication, a client gone | |

A request without the lock waits for one that holds it before it saves (`RowIsFree`), and then saves
its own, older row. `Sources`, `Dest`, `Moved` and `SaveChanges` are the transitions and the callbacks
of `ReviewsMachine`; `RunWithdraw` is the withdrawal the acceptance of a request nests, with the
query of `notify_withdraw`. `overlapped` is a history variable: whether two requests were ever open
at once. The properties that need every decision to have read the latest row say so with it.

The preprint is created with its file, which stays. Not modelled: DOIs, privacy and spam, the
replacement of the file, contributors, mails, and a provider that changes its workflow while it has
preprints. Whether an exception occurs for other reasons is left open by `RollsBack`.

### RequestTasks and DelayedTasks

The two queues of a thread and the transaction around its view. `thread[t]` is what thread t serves:
its phase, the request and its status, whether the view has saved the row, `queue` (the celery tasks
of the request), `celery` and `greenlets` (the two post-commit queues). `committed` are the requests
whose change is in the database; `broker` and `worker` the tasks on their way; `index` what the
search index shows. `overtaken`, `removals`, `checked`, `server` and `answered` are history.

| Actions | Code |
|---|---|
| `Begin`, `Respond`, `Teardown` | `before_request` and teardown handlers; `CeleryTaskMiddleware` |
| `Save`, `RemoveContributor`, `ViewComments` | `update_search`, `checkin_files_by_user`, `_update_comments_timestamp`: what fills the queues |
| `Commit`, `Rollback` | `transaction_after_request`; `ATOMIC_REQUESTS` of the API |
| `PostcommitSent`, `PostcommitDropped`, `PostcommitSwallowed`, `PostcommitRaises` | the outcomes of `postcommit_after_request` |
| `Take`, `WriteIndex`, `CheckInFiles`, `Retry` | celery's workers |

`After` is the order of the handlers. Flask (0.12) calls `after_request` functions in the reverse of
the order in which `attach_handlers` registers them, so the web site serves the post-commit queue
*before* the transaction ends; the API ends its transaction around the view, before any middleware
sees the response. `DropsQueue` is the status from which the queues are dropped: 500 for the web site,
400 for the API. A script has no queue to speak of: `enqueue_task` runs its function on the spot, inside
the open transaction, and what `enqueue_postcommit_task` appends is never sent. Locks on the rows are
not modelled, which only allows more interleavings. Celery's own guarantees (a task sent is taken once)
are assumed.

`DelayedTasks` is the abstract specification: a task is owed from the commit of its request on, is sent
or forgotten, and nothing else is sent. `RequestTasks` implements it with `owed` and `running` read off
the queues (`Delayed == INSTANCE ... WITH`). It does not hold of the post-commit queue.

### Contributors

One resource: rows (`contributors`, `visible`), the Django groups that hold the permissions (`group`),
and the accounts (`registered`, `disabled`, `mergedBy`, `unclaimed`). `spared` is history: the contributors whom a removal left in place after it had taken their unclaimed record. `unsaved` is history too:
the unregistered contributors whom an administrator's merge, which does not save the surviving account, has put
in the place of others. `GroupAdmins` are
admins through an OSF group: they may do everything, and count for nothing when admins are counted.

| Actions | Code |
|---|---|
| `AddContributor`, `AddRefused` | `project_contributors_post`, POST of the API, `add_contributor` |
| `UpdateContributor`, then `UpdateWritten` or `UpdateRefused` | PATCH of a contributor |
| `RemoveContributor` or `RemoveRefused`, then `RemoveWritten` | `project_remove_contributor`, DELETE of the API, `remove_contributor` |
| `ManageContributors` | `project_manage_contributors`; the failing forms write nothing |
| `ClaimRegistered`, `ClaimForm` | the two claims of an unclaimed record |
| `ConfirmEmail`, `MergeAccounts` (both by `MergeUser`) | `confirm_email` and the admin application's merge, by `merge_user` |
| `Disable`, `Enable`, `GdprDelete` | the admin application, `gdpr_delete` |

Demotions and removals are two steps, what they check and what they write. `Unlocked` is the row lock of
the resource that `get_or_http_error` and `get_object_or_error` take: it orders the requests that
load the resource from the URL, but not removals from listed components, `manage_contributors`,
merges or deletions of accounts. Each of the checks counts differently, as in the code: `MayRemove`
counts active admin contributors, `MayLower` the registered members of the admin group, `MayDelete`
active members other than the user, `ManageContributors` the active users given in the request.

Not modelled: the order of the rows, claims through a session, the loop over components of one
request, whole-row saves of accounts, changes of OSF groups, and preprints' and drafts' own overrides.

### Accounts

`user[a]` is the row of an account: its username, whether it is registered, confirmed, disabled or
merged (`merged_by`), whether it has a password and an unclaimed record, the links mailed to it
(`email_verifications`: token, address, identity) and the state of each external identity. `emails[e]` is the
row of address e in the table of confirmed addresses. A username without an @ (an unregistered
contributor without address, a merged or erased account) is `None`.

| Actions | Code |
|---|---|
| `RegisterUnconfirmed`, `Invite`, `Claim`, `InstitutionSignOn` | `register_unconfirmed`, `deserialize_contributors`, `claim_user_form`, `InstitutionAuthentication` |
| `ExternalLogin`, `ConfirmExternal`, `RefuseIdentity` | the ORCID sign-in, its link, `ensure_external_identity_uniqueness` |
| `ConfirmEmail` | `confirm_email`, with one merge or two |
| `AddEmail`, `ResendConfirmation`, `RemoveEmail`, `RemoveLinks`, `SetPrimary`, `SetPassword`, `DeleteIdentity` | the settings, of the web site and of the API |
| `Disable`, `Restore`, `GdprDelete`, `MergeAccounts` | the admin application and `deactivate_requested_accounts` |

`GetUser` is `get_user`: whoever has the address as username or has confirmed it, and nobody where these are
two. `Merging` and `Merged` are the two halves of `merge_user`; the admin application saves the second only.
`UsernameFree` and `EmailFree` are the unique columns: a request that breaks one is rolled back.
Administrators act on any account, merged or erased ones included, as `admin/users/views.py` does; `MaxActs`
bounds how often. `Primaries` has the addresses the API lets an account choose as primary: its own, and those
whose link was followed. `chosen` and `revived` are history: who goes by an address so chosen and not, or no longer, their
own, and which merged accounts an administrator has merged another into since. An action is a request.

Not modelled: sessions, CAS, passwords as such, the second factor; contributors invited without an address;
the end of a link by its date (a link may be removed instead); spam; requests that overlap (the page
of a confirmation link saves a row it has not locked, `framework/auth/views.py:693`); what an account owns,
for which see Contributors.

### FileStorage

The trees of several targets (`Projects` and `Preprints`) under the roots `Root`. `row[i]` is the
`BaseFileNode` row: type, parent, target, checkout, purged. `version` is the sequence of `FileVersion`
rows, `attached[f]` the versions of file f, which copies share; `stored` the blobs in the store;
`members`, `gone`, `primary` what the targets have; `tasks` the post-commit tasks not yet run.

| Actions | Code |
|---|---|
| `CreateFolder`, `LoadUpload` then `SaveUpload` | `osfstorage_create_child`, `create_version` |
| `MoveUnder`, `CopyUnder` | the move and copy hooks, `move_under`, `copy_files` |
| `Delete`, `PurgeTrash` | `osfstorage_delete`, `scripts/purge_trashed_files.py` |
| `CheckInOrOut` | PATCH of `checkout` |
| `SetPrimaryFile` | `Preprint.set_primary_file` |
| `AddContributor`, `RemoveContributor`, `RemoveNode`, `CheckinFilesTask`, `DeleteFilesTask` | the receivers in `addons/osfstorage/listeners.py` |

WaterButler's question (`get_auth`), its work and its hook are one step. An upload is two, what
it loads and what it saves, because the row is saved whole and the versions are counted before.
A copy needs leave to read its source, and to write where it goes; the rest needs
leave to write. A move of a folder into itself never returns and is rolled back (`RecursionError`).

`Below(rows, i, S)` is what a recursive query or a walk through `children` finds: i, and step by step (`Reach`) what
hangs from it. `Copied`, `Moved` and `Trashed` are the rows that the three operations on a folder leave: the copy of what is live
below, the new target of all of it, and the trash.

Not modelled: restoring trash, regions, quotas and their cache, file metadata, names (two live
siblings of one name), the purge of versions by hand, and `checkin` and `delete` tasks
of preprints' own signals other than those listed.

### What composes

The modules meet at what one leaves for another. `ArchiveProgress` is the interface between the archiver and the
sanctions: a registration is archiving (`Registration.archiving`, which the nightly scripts read), then is not, its
admins are asked or its archive fails, in this order and for good. RegistrationSanctions takes its actions
(`ArchiveAdvances`, `ArchiveFails`; `RemoveStuck` is an administrator's), and ArchiveTree implements it
(`Progress == INSTANCE ... WITH archive <- Archive`) while nothing overlaps. The post-commit tasks of RequestTasks are
`CheckinFilesTask` and `DeleteFilesTask` of FileStorage, which may run any time after the commit, as
RequestTasks allows; FileStorage's `members` are the `contributors` of Contributors, whose `ConfirmEmail`,
`MergeAccounts`, `ClaimForm`, `Disable`, `Enable` and `GdprDelete` are what the actions of Accounts do to one resource.

## 3. Model checking

`tlc -config X.cfg M` for each row. States are the distinct states TLC found.

| Run | Instance | States | What it shows |
|---|---|---|---|
| `sanctions_moderated` | 3 interchangeable admins, moderated provider, no refused DOI | 74,767 | no admin is skipped; a completion is published; the stored moderation state lags only where `ModerationStateLag` says; a withdrawal cancels the embargo; what moderators decide is recorded |
| `sanctions_mint_failures` | 2 admins, unmoderated, DOIs may be refused, fair nights | 16,077 | embargoes honoured, closed sanctions closed, everything is answered and embargoes end in spite of the half-committed failures |
| `archive_serial` | root, two components, two add-ons; nothing overlaps; fair | 48,774 | the admins are asked only about complete archives; every tree is reported unless the task that does it dies, every refused copy fails it; ArchiveProgress is implemented |
| `archive_overlapping` | root, one component, two add-ons; everything overlaps | 39,992 | asked only when finished, never two verdicts; a job in SUCCESS has archived all its targets |
| `preprint_reviews` | two API workers, two withdrawal requests, all workflows | 584,148 | publication follows the review state, moderation comes first, grants withdraw |
| `request_tasks` | a thread of the web site, one of the API, a script; two requests, two workers, one retry; fair | 231,377 | only committed changes are sent; what was answered is indexed; a removal through the API checks files in; DelayedTasks is implemented |
| `contributors_serial` | 3 accounts, all of them admins by an OSF group, two permissions, one request at a time | 336,794 | an admin and a visible contributor remain; each has one permission; unregistered contributors can be claimed |
| `storage_serial` | a project, a preprint, a folder, two files, two users, two contents, two versions, one request at a time | 361,632 | numbering, reachability, storage, checkout and primary file |
| `accounts` | 3 accounts, 2 addresses, one ORCID iD, 2 tokens, 2 acts of administrators | 412,736 | an active account is found by its username; an identity has one owner; nothing leads to a merged account; with the exceptions named below |
| `finding_partial_commit`, `finding_grandchild`, `finding_primary` | | | section 5 |

*Bounds.* Three admins are what distinguishes "one", "some" and "all" of a set of approvals. Two
components and two add-ons give the last two copies of a tree to two different nodes or to one; the
chain of three in `finding_grandchild` is the shortest tree whose leaf is not a child of the root. Two
workers are two rows that overwrite each other, two requests are two that wait for one preprint.
Three accounts are the one removed, the one who would be left and the one who acts; `write` stands for
`read` as well, since the code only compares with `admin` and by rank. Two files in one folder are
what a copy, a shared version and a common content need. Three accounts are the one that confirms an address,
the one that had confirmed it and the one that has it as username, which is the most a confirmation touches;
two addresses are a primary one and another, and `finding_primary` needs a third; `Tokens` bounds the links that
wait at a time; two acts let an administrator merge and then erase, restore or merge again. All accounts of
`contributors_serial` are admins by a group, so that anybody may act at any time; they are interchangeable, since
only `Init` reads who created the resource. Two runs have a CONSTRAINT, beyond which TLC checks a state and goes no further:
`FewEnded` (two suspensions and merges at a time; a third would leave nobody) and `FewUnsettled` (two checkouts and
waiting tasks at a time: two of one kind, or one of each, on the files of a folder). Without them the runs pass as well, with
1,151,811 and 813,468 states. `MaxVersions`, `MaxRetries` are caps of
the instance; `max_retries` is 5 in the code, and one retry is enough for a task to overtake another.

*Serial runs.* Contributors and FileStorage are checked with one thread: with two, the code does
not keep these properties. AdminRemains, VisibleRemains and SparedForAReason then fail: one request sees that b can be removed, a
merge makes b the only admin, and the removal is carried out. With `Threads = {1, 2}`, TLC finds VersionsAreNumbered, CheckedOutByMembers,
LiveIsReached, LiveIsStored, PrimaryFileStays and CheckedOutIsKept each violated. These are stated here and in section 5 and
are not findings with a run of their own. In the serial runs scripts and
post-commit tasks still run between any two requests.

*Type invariants* are all proved (section 4), and were checked before they were, as were the inductive
invariants of the proofs.

*Exceptions.* Some properties say less than the hazard they are aimed at, and `PROJECT.json` says so beside it:

* EmbargoHonoured is about registrations without moderation. With `Moderated = TRUE` TLC finds it violated:
  `set_privacy` publishes from the moderation queue, and a moderator then approves the embargo.
* NoAdminSkipped lets a withdrawal pass without its admins where none of them has answered, which is how a moderator
  forces one (`Forced`). Admins who leave while others still answer are not modelled.
* TreeIsReported is checked without overlaps (with them the last two writers may not see each other), and excepts `lost`.
* GrantWithdraws, OnlySeenPreprintsWait and WithdrawalIsFinal are about requests that have not overlapped.
* RemovalChecksIn is about the API; on the web site a post-commit task may run before its commit.
* UnregisteredIsClaimable excepts `spared` and `unsaved`, whose record the code does lose, and AdminRemains counts
  who is `unsaved`.
* ActiveIsFound excepts `chosen`, and `finding_primary` shows why; MergedIsEmpty excepts `revived`.

*Fairness.* Celery beat runs the scripts every night (`website/settings/defaults.py:550-574`), so each
nightly action that can succeed is weakly fair, and so is `PassTime`; the forms that fail are not, and may
happen any number of times. A begun archiver task or callback ends and celery runs what is queued;
WaterButler owes no answer, so TreeIsReported begins where all targets are finished. In
RequestTasks a thread that has a response ends the request, and the workers work; no request need begin.

*Deadlock* is checked for preprints, contributors and storage. Sanctions, archives, the request queues and the accounts
rightly come to an end: every sanction closed, the tree reported, all requests answered, all accounts used up.

*Mutants.* `PROJECT.json` names for every property one operator in the module ("Mutated form") that
replaces a definition the way a plausible mistake would: a dropped guard, a folder looked at without
its contents, a status class mistaken for another. TLC finds the property violated in each.

## 4. Proofs

`tlapm` proves, with every leaf checked, for every value of the constants that their ASSUMEs allow:

| Module | Theorem | Establishes |
|---|---|---|
| RegistrationSanctions_proofs | `Typing`, `Safety` | `SanctionInv` |
| | `AdminsAreNotSkipped`, `WithdrawalEndsEmbargo`, `CompletionIsPublication`, `EmbargoIsHonoured`, `ClosedNeverReopens` | the properties of the two runs |
| | `WithdrawnShows`, `RejectedIsDeleted` | WithdrawnIsPublic, RejectionDeletes |
| | `Recording`, `DecisionsAreRecorded` | `RecordInv`, ModerationIsRecorded |
| | `ModerationStateLagsLittle` | ModerationStateLag, where no DOI is refused (`~MintMayFail`) |
| ArchiveTree_proofs | `Typing`, `Safety` | TypeOK, `ArchiveInv` |
| | `AskedAtTheEnd`, `VerdictIsOne`, `SuccessfulJobs` | AskedWhenFinished, OneVerdict, SuccessIsSound: for any tree, any add-ons, overlapping or not |
| | `ArchiveGoesForward` | ArchiveProceeds, the refinement of ArchiveProgress: for any tree, while nothing overlaps |
| | `AskedAboutAll` | AskedWhenComplete: for any tree without grandchildren (`FlatTree`), while nothing overlaps |
| PreprintReviews_proofs | `Typing`, `PublicationIsReviewed`, `ModerationComesFirst` | for any number of overlapping requests |
| | `GrantsWithdraw`, `UnseenAreNotQueued`, `WithdrawalsAreFinal` | while requests have not overlapped |
| RequestTasks_proofs | `Typing`, `Safety` | TypeOK, Busy, QueuesInv, SentInv |
| | `SentIsCommitted`, `IndexFollowsCommit` | OnlyCommittedIsSent, IndexIsCommitted |
| | `DelaysTasks` | every step is a step of DelayedTasks or a stutter: the safety part of TasksAreDelayed |
| Contributors_proofs | `Typing`, `PermissionsMatchRows`, `RecordsAreKept` | for any number of overlapping requests |
| | `AdminIsLeft`, `VisibleIsLeft`, `SparedOnlyTheLast` | for one request at a time (`Serial`) |
| Accounts_proofs | `Typing`, `Safety` | TypeOK, `AccountsInv` |
| | `IdentitiesAreUnique`, `MergedAreEmpty`, `ActiveAreFound` | the properties of the run, for any number of acts |
| FileStorage_proofs | `Typing` | for any targets, folders, files and users, and any number of overlapping requests |
| | `Safety` | `StorageInv`, for one request at a time (`Serial`) |
| | `VersionsKeepNumbers`, `MembersCheckOut`, `LiveStaysReached`, `LiveStaysStored`, `PrimaryFileIsKept`, `CheckedOutStaysAsItIs` | the properties of the run, for one request at a time |

*Sanctions.* NoAdminSkipped is not inductive: whether an acceptance was due depends on what a withdrawal
or an expiry did to another sanction. `SanctionInv` adds that a registration starts with one of the two
initial sanctions, that nothing is queued without moderation, that a withdrawal leaves no embargo
alive and that a rejection deletes. The lemmas say what `Complete`, `Accept` and `Reject` leave of
each sanction; the theorem has one step per action.
What is stored beside the sanctions has an invariant of its own, `RecordInv`, relative to that one. The log names a decision after the moderation state
stored before it, so ModerationIsRecorded needs `WithdrawalIsKnown`: a withdrawal that waits for the
moderators is stored as `pending_withdraw`, whatever else was refreshed since, or its acceptance would be logged as something
else. The script that finds a termination without an embargo detaches it and refreshes nothing;
`TerminationIsLive` (such a termination is on a deleted registration, or hidden under a withdrawal) is why the stored
state is not stale afterwards.

*Archiver.* Three invariants build on each other. `AnswersInv`: a target that a copy, an open callback or
the task of the chain may still answer is INITIATED, and only one of them can answer it; so a target
that is not INITIATED never changes again (`AnswersStep`). `RowsAreSound`: a row that says SUCCESS, committed, saved in
an open transaction or loaded by `archive_success`, belongs to a node whose targets all succeeded, and they
stay so however late the row is saved. `VerdictInv` says what a verdict rests on: a success on a tree that is `Final` (all
targets finished but for commits) and whose root succeeded; a failure on a `Lost` target, which nothing will answer,
a missing file, or a `Final` tree whose root did not succeed. The step lemma splits on `Final`:
a final tree can take few steps (`FinalSteps`) and keeps its root's row (`RootRowsStay`); before, the only
verdict is that of the callback which sees the tree finished (`OpenVerdicts`), and what is lost stays lost.

Two theorems are about the regime without overlaps. `Exclusive` says what `MayStart` keeps apart, and
`RowsAreCurrent` what follows: a row in a transaction, a task or `archive_success` is the one that is committed. `ArchiveGoesForward`
needs both, since the row of `_fail_above` or of `archive_success` would otherwise take `done` back; a step is
the first question to the admins, the first failure, or leaves `Ready` (not archiving) as it was or makes
it true. With overlaps it fails in a tree with two components, and the registration is archiving again. `AskedAboutAll`
adds `Reaches`: a failed job, and a failed target of a finished node, has failed the root's job, so that a root in
SUCCESS in a finished tree (`SuccessIsOfAll`) leaves nothing that failed. This is where `FlatTree` is used
(`PostUpdateReaches`), and `finding_grandchild` shows that it cannot be dropped.

*Preprints.* A request may save a row it loaded long ago. So `RowsInv` says the same of the committed
row and of every row in flight (`RowSound`), and is kept by any step; publication and moderation follow.
That a decision acts on the latest rows (`ReadsAreFresh`) holds only while nothing overlaps; `SerialInv`
says so by means of `overlapped`, and the three other theorems follow.

*Request tasks.* The invariant says, phase by phase and framework by framework, which tasks a thread's
queue can hold: what is left from an earlier request of the thread is of a committed one (or is
dropped by the next `before_request`), and what has been sent is committed unless it is a post-commit
task of the web site. `Order` is the one lemma about the handlers; each action has a lemma on what the
thread `Becomes`.

*Contributors.* `ContributorsInv` is TypeOK, OnePermissionEach and UnregisteredIsClaimable.
`Fits` isolates what groups owe the rows, and `FitsSet`, `FitsCleared`, `FitsReplaced` say that each of
the writers keeps it; `UnsavedKept` says that whoever stays an unregistered contributor stays excepted. For one
request at a time `ChecksHold` says that what a removal or demotion has looked
at still is so when it writes; without `Serial` this fails, and with it the theorem. `SparedOnlyTheLast` goes
through the four ways to be removed; that a visible contributor was there before is `VisibleRemains`.

*Accounts.* None of the three properties is inductive by itself: which account a request finds depends on who
has confirmed what. `AccountsInv` says that usernames are unique (`Alone`), that an address belongs to an account
that is made (`Owned`), that a confirmed account has confirmed its username but for those in `chosen` (`Listed`), that a
verified identity has one owner (`Unshared`), and that a merged account is bare but for those in `revived`
(`Emptied`). It is an operator of the two tables and the two sets of exceptions, so that an action
can be taken apart: a confirmation is a merge, another merge and the change of one row, and `MergeSome` and
`OneRow` say that each keeps the invariant of the tables in between; `LoseIdentity` does the same for identities that
others waited for, and `Excepted` drops the exceptions nobody needs any more.

*Files.* What is below a folder is a recursive function, and the library's induction theorems cannot be
instantiated. So the first lemmas do the induction by hand: a set of numbers that has 0 and the next of each of its members below
a bound has all of them up to it (`LeastNat`, from the well-foundedness of the naturals); the equation that defines `Reach` has a
solution, built up to each number (`ReachIsDefined`); `BelowIsLeast`, whatever has i and what hangs from it has all
that is `Below` i; and `BelowIsClosed`: `Depth` steps are enough, for a walk that goes on has passed through a new folder
each time. From these on `Below` is used as a closure only. `Tree(rows)` says of a table of rows that roots stay, that each live
row hangs from a live folder of its own target, and that all of them are reached; `TreeInduction` is the induction down such a tree.
`AddedTree`, `MovedTree`, `TrashedTree`, `CopiedTree` say that the four changes of a table leave a tree. `StorageInv`
adds the state of what is not live, uploads whose rows are current, contents that are stored, and what tasks owe;
each action has a lemma that keeps it. `Typing` needs that the uploads in progress have room for their versions
(`UploadsHaveRoom`).

*Only model-checked.* Liveness (SanctionsAnswered, EmbargoEnds, TreeIsReported, RefusalIsReported,
AnsweredIsIndexed, RemovalChecksIn) and the fairness part of TasksAreDelayed, which are out of the prover's reach.
A hypothesis of a theorem above (`Serial`, `~Concurrent`, `FlatTree`, `~Moderated`, `~MintMayFail`) is one without which
TLC finds the property violated (sections 3 and 5).

## 5. What the checks found

| Run | Disagreement |
|---|---|
| `finding_partial_commit` | The `except` of the nightly script lies inside `transaction.atomic()` (`scripts/approve_registrations.py:60`): a refused DOI leaves an approved, private registration, against `osf/utils/machines.py:333-334`. |
| `finding_grandchild` | `_fail_above` stops at the parent (`osf/models/archive.py:117`, against its docstring): the admins are asked to approve an archive that failed two levels down. |
| `finding_primary` | The API takes as primary an address whose link was followed and not agreed to (`api/users/serializers.py:640`), though another account has it confirmed; `get_user` then finds two accounts, and neither signs in by it. The same method says "You cannot set an unconfirmed email address as your primary email address" (`:644`), and `is_merge` calls such an address an "unconfirmed email" (`:589`). |

Also met while reading, without a run of their own:

* Sanctions. An embargo that expires by script keeps the moderation state `embargo`
  (`osf/models/registrations.py:562`, docstring at `:700`). The guard against withdrawn registrations reads
  `is_retracted` of the retraction (`website/project/decorators.py:103`, against `:80`), so a second
  request can replace an approved one. A rejected withdrawal hides a pending embargo from moderators. One
  termination that cannot be accepted rolls back the whole nightly batch
  (`scripts/approve_embargo_terminations.py:88`). `set_privacy` does not know the moderation queue (`osf/models/node.py:1226`).
* Archiver. The last two writers of a tree may not see each other (`website/archiver/listeners.py:42`,
  against `:35`). A parent's full-row save may undo the failure of its component, or make a
  registration archiving again (ArchiveProceeds with `Concurrent = TRUE` and two components). Two `archive_success`
  tasks may both send tokens. `sent` is saved before the mails (`website/archiver/tasks.py:316-319`): a task that dies in
  between leaves admins unasked, and neither its failure nor another task makes up for it. Stuck trees all of whose jobs ended are not found
  (`osf/models/registrations.py:162`).
* Preprints. A withdrawal that was declined and then accepted is announced as forced
  (`osf/utils/machines.py:157`, `:162`). A decision that overlaps a withdrawal may undo it; after that no other
  pending request can be granted (`:155`).
* Tasks. On the web site the post-commit queue is served before the transaction ends
  (`framework/postcommit_tasks/handlers.py:48`, against the docstring at `:101`), since Flask calls `after_request` functions in
  the reverse of the order of `website/app.py:54-61`: a task may run before its commit, or for a change that is rolled back.
  `ban_url` reads `ex.message`, which Python 3 exceptions lack; the `AttributeError` is taken for a
  missing queue and the rest of the post-commit tasks is dropped (`framework/postcommit_tasks/handlers.py:58`).
  `enqueue_postcommit_task` outside a request is never flushed. A slow index task overwrites a newer row.
* Contributors. `remove_contributor` checks for another admin and deletes later (`osf/models/mixins.py:1631`, against
  `:1630`); a merge of accounts in between leaves no admin (two threads in `contributors_serial.cfg`). A refused removal on the web site commits the loss of the unclaimed record
  (`osf/models/mixins.py:1621-1624`). `manage_contributors` and `gdpr_delete` ignore whether a removal
  succeeded.
* Accounts. An account made by an external identity that confirms
  a resent link without one is registered and cannot sign in until it links the identity again
  (`api/base/authentication/drf.py:90` says this status cannot be reached). The admin application's merge does not save the account that merges (`admin/users/views.py:401`), so that the
  identities and links it should take over are lost, and that an account which is not registered may become a resource's only
  admin, or a contributor without a record to claim. Nor does it ask what that account is: one that was merged before receives
  addresses again, against "merged users do not have an email" (`api/institutions/authentication.py:219`). `gdpr_delete` leaves the links (`osf/models/user.py:1840`).
* Files. Sibling names are unique only at the root in the database (migration 0044), not as the docstring of
  `addons/osfstorage/models.py:135-138` says. Two uploads at once get the same version number, and an upload
  saves the whole row it loaded, over a checkout, move or deletion committed meanwhile. Two moves of
  folders into each other make a cycle. `delete_files_task` fails for good if anything is checked out.
  `checkin_files_task` leaves folders checked out. A user demoted to `read` cannot check in.
  `scripts/unpurge` fails on `versions.latest()`; a restored file may lose its content to the purge of another.

## 6. Not modelled, and what would come next

| Part | Why |
|---|---|
| Draft registrations and metaschemas, collections and subjects, affiliations | single rows, changed by one request each; validation of data |
| OAuth accounts and add-ons | the token refresh races are with external services; the next candidate with queued mails |
| Notifications and queued mails | next: a mail that must still hold when it is sent; nothing else depends on it |
| Wiki and comments | next: linear versions of a page |
| Spam | appears in RegistrationSanctions as a flag |
| Identifiers, SHARE, search, metrics | external services; their failures appear where they reach state (DOIs in the sanctions, the index in RequestTasks) |
| API v2, admin application, web site | their handlers are modelled with the component they change; serialization and permissions are not |
| Commands and migrations | one-off, except the nightly scripts, which are modelled |

Within the modelled parts: moderation in the archiver's tree with restarts by an admin; the components of a
registration as nodes with sanctions of their own to inherit; access requests; node trees (fork, link,
privacy of components); two requests at a time for contributors, accounts and storage, with the locks they
would need; and a composition of Contributors with FileStorage through RequestTasks.
