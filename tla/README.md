# Hunter Platform: TLA+ models and proofs

Hunter Platform is a marketplace between candidates, headhunters and employers. Headhunters
upload candidates, whose contact details are stored encrypted; they recommend them, without the
details, to employers' jobs; an employer who is interested asks, the candidate agrees, and only
then are the details sent to the employer. A hire is a placement with a commission for up to two
headhunters. Candidates may also apply themselves and wait for a headhunter to pick them up.

The server is one Node.js process over one SQLite database (`node:sqlite`, which is synchronous).
Around that core are a project manager's workbench, which plans the positions of a project and
ranks candidates for them, quotas and rate limits, notifications and messages, and pages that read
all of it. This directory models what several parties, a timer, crashes and other servers do to it:
who owns a job, a recommendation, an application; when contact details may leave; who is paid; as
whom people act; whether what was queued for another server is ever delivered; how often somebody
may call; and whether the many pages over the same tables tell one story.

Paths below are relative to `src/main/` of the repository unless they say otherwise.

## 1. Inventory

| Component | State | Operations | What must hold |
|---|---|---|---|
| Flows (`flows/*.ts`, `lib/hunter-pipeline.ts`) | none: tables of transitions | `applyTransition`, `canTransition` | every handler moves a status only along its table, but for `deleteMyData`, which withdraws whatever is open |
| Headhunter handlers (`modules/headhunter/handler.ts`) | `candidates_private`, `candidates_anonymized`, `recommendations`, `jobs` | upload, recommend, withdraw, create job for an employer | a recommendation names the owner of its job |
| Employer handlers (`modules/employer/handler.ts`) | `jobs`, `recommendations`, `unlock_audit_log`, `webhook_delivery_queue` | create, claim, reject, pause, resume, close a job; express interest; unlock contact | contact leaves only with consent; a job has one owner |
| Candidate consent and erasure (`modules/candidate/handler.ts`, `gdpr-handler.ts`) | the same, `users` | approve, refuse, delete my data | nothing new leaves after the erasure |
| Candidate portal (`modules/candidate-portal/applications.ts`, `headhunter-pickup.ts`) | `recommendations`, `candidate_applications` | apply, respond, pick up | both tables agree; one active application per job |
| Board (`modules/headhunter/kanban.ts`) | `recommendations.pipeline_stage`, `headhunter_id`, columns | add (claim), move, remove a card | only the owner moves a card, no owner is overwritten |
| Commission (`modules/commission/handler.ts`, `modules/admin/handlers/placements.ts`) | `placements`, `webhook_delivery_queue` | create, mark paid, cancel | paid once, to whom the history says, and final |
| Webhook worker (`modules/webhook/worker.ts`, `db/repositories/webhook-delivery-queue.ts`) | the queue; batches in memory | enqueue, batch, retry by an administrator | every row settles, truthfully, within bounded attempts |
| Accounts (`modules/auth`, `routes/auth.ts`, `modules/candidate-portal/auth.ts`, `modules/register`) | `users`, `user_role`, `session`, `candidate_otp_codes` | register, request and verify one-time codes, login, switch, refresh, log out, rotate the key, suspend, reinstate | a code is spent once; sessions act in granted roles and end for good; nothing starts for an inactive account |
| Quota (`modules/quota`, `modules/cron`) | `users.quota_used`, `quota_reset_at` | consume, adjust, reset at midnight | it comes back; what a menu offers is what a call finds |
| Rate limits (`modules/rate-limit`, `lib/rate-limit-portal.ts`) | `rate_limit_buckets`; counters in memory | check and count, configure, clear, clean up | no burst above the limit, of calls that are counted; cleaning up forgives nobody |
| PM workbench (`modules/pm`, `db/repositories/projects.ts`, ...) | projects, positions, decompositions, plans, matches | create, edit, delete, decompose, commit, choose a plan, recompute matches | rows hang together; one plan is selected; nobody reaches another's rows; reads agree |
| Matching (`lib/weighted-match.ts`, `lib/jaccard.ts`) | none: a function | `calculateMatch` | a recomputed ranking is of the position as it is |
| Notifications, webhook inbox (`modules/notification`, `db/repositories/webhook-inbox.ts`) | `notifications`, `webhook_inbox_deliveries` | send, read, delete, expire, clean up; receive | what is sent twice counts once |
| Messages, tasks, notes (`modules/candidate-portal/messages.ts`, `modules/headhunter/tasks.ts`, `modules/pm/notes.ts`) | one table each | send, read; create, edit, complete, reopen, delete; upsert | one user's call changes nobody else's desk |
| Capabilities and routes (`capabilities`, `routes`) | none: declarations and dispatch | `canInvoke`, the handlers' charges | the two prices of an endpoint agree |
| Dashboards, public pages, console (`modules/*/dashboard.ts`, `modules/view`, `modules/admin/handlers`) | none of their own | reads | pages agree with one another |
| Sandbox, view tokens, administrators' login, audit log, metrics, idempotency, desensitisation, user interfaces | their own rows, or none | reading, rendering, encrypting | not modelled: section 7 |

**How they interact.** The handlers share tables, not calls: the employer's `unlockContact` reads
what the candidate's `approveUnlock` wrote, the board and the pickup write the same columns, and
every handler that informs somebody inserts a row into `webhook_delivery_queue`, which the worker
reads on a timer. The authentication middleware stands before every authenticated handler and lets
active accounts through, as whom a key or a session says.

**What is hard here.** SQLite calls are synchronous, and on this path nothing is awaited but
`configCache.getOrDefault`, by `createPlacement` and the rate-limit middleware: it reads the database
synchronously and resumes in the same turn of the event loop. So a handler runs to its end before
another starts. The difficulty is therefore the *order* of whole
handlers of different people, checks that each handler makes on its own tables, the crash points
between separately committed statements (of an upload, a placement, a registration, a one-time
code), and the two places that do
await: the worker, whose batches overlap, hold rows they read long ago, and may die, and
`decomposeProject` of the workbench, which sleeps between its reads and its insert. Reads are hard in
another way: dozens of queries, each with its own joins, describe the same rows. `PROJECT.json` lists every such
hazard at its line, with the properties that cover it.

## 2. Modules

| Module | Models | Relation |
|---|---|---|
| `Flows` | the flow tables, `applyTransition`, the board's `canTransition` | constant-level |
| `Platform` | the shared tables as variables, rows as records, authentication guard, suspension, erasure | EXTENDS Flows |
| `JobBoard` | jobs: create, create for, claim, reject, pause, resume, close | EXTENDS Platform |
| `Pipeline` | public pool, upload, recommend, withdraw, interest, approval, refusal, unlock | EXTENDS Platform |
| `SelfApply` | apply, respond, pickup | EXTENDS Platform |
| `Kanban` | addCard, moveCard, removeCard | EXTENDS Platform |
| `Commission` | createPlacement, markPaid, cancel | EXTENDS Platform |
| `Recruitment` | all of them interleaved; the properties; the refinement | EXTENDS the five above |
| `UnlockProtocol` | what releasing a contact means, abstractly | instantiated by Recruitment |
| `Dashboards` | the pages of headhunters, candidates and employers, as reads of the tables | EXTENDS Platform |
| `AdminPages` | the public pages and the administrator's console, as reads; `PagesAgree` | EXTENDS Dashboards |
| `MCRecruitment` | symmetry for TLC; the handlers together with the pages | EXTENDS Recruitment, AdminPages |
| `Recruitment_proofs` | theorems about who owns what: types, owners, applications, settlements | EXTENDS Recruitment, TLAPS |
| `Consent_proofs` | theorems about contacts: consent, delivery, erasure, the refinement | EXTENDS Recruitment_proofs |
| `Hiring_proofs` | theorems about applications, boards, placements and the pages | EXTENDS Consent_proofs, AdminPages |
| `WebhookDelivery` | the queue, overlapping batches, faults, retries; its properties | stands alone |
| `WebhookDelivery_proofs` | theorems about it | EXTENDS WebhookDelivery, TLAPS |
| `Accounts` | accounts, roles, sessions, one-time codes, interrupted handlers; its properties | EXTENDS Flows |
| `MCAccounts` | symmetry for TLC | EXTENDS Accounts |
| `Accounts_proofs` | theorems about Accounts | EXTENDS Accounts, TLAPS |
| `WeightedMatch` | the score of a candidate for a position, exact | constant-level |
| `PmRepositories` | the workbench's tables and the transactions of their repositories | EXTENDS WeightedMatch |
| `Workbench` | the workbench's endpoints, sleeping decompositions, restarts; its properties | EXTENDS PmRepositories |
| `Snapshot` | the workbench's reads; `ReadsAgree` | EXTENDS PmRepositories |
| `MCWorkbench` | profiles, positions and the budget for TLC | EXTENDS Workbench, Snapshot |
| `Workbench_proofs` | theorems about the workbench and its reads | EXTENDS Workbench, Snapshot, TLAPS |
| `Limits` | sliding windows, registration windows, one-time-code buckets, clean-up; its properties | stands alone |
| `MCLimits` | limits and constraint for TLC | EXTENDS Limits |
| `Limits_proofs` | theorems about the limits | EXTENDS Limits, TLAPS |
| `Quota` | consumption, adjustment, the daily reset, suspension | stands alone |
| `Notifications` | notifications with deduplication and expiry | EXTENDS Quota |
| `WebhookInbox` | received deliveries | EXTENDS Notifications |
| `Desk` | messages, tasks, notes | EXTENDS Notifications |
| `Capabilities` | declared prices, menus, the handlers' charges | EXTENDS Quota |
| `Portal` | the five above composed with the scheduler; its properties | EXTENDS Desk, WebhookInbox, Capabilities |
| `MCPortal` | quotas for TLC | EXTENDS Portal |
| `Portal_proofs` | theorems about everyday use | EXTENDS Portal, TLAPS |

**State and code.** `users` maps an account to its status. `jobs`, `profiles`, `recs`, `apps` are
functions from keys to rows (`NULL`: no row yet); a recommendation's key is the pair
(anonymised profile, job), because the table has `UNIQUE(anonymized_candidate_id, job_id)`, and an
application has its recommendation's key (`UNIQUE recommendation_id`). A profile is the pair of
rows in `candidates_private` and `candidates_anonymized`; `has_anon` is false when the process died
between the two inserts, `has_pii` when the contact details were wiped. `audit` is
`unlock_audit_log`, one sequence per recommendation; `outbox` is the set of rows ever enqueued,
`placements` the table with its `UNIQUE` kept in the guard of `CreatePlacement`. Each action is one
handler: its guard is the handler's checks in the order that matters, its primed variables all
that the handler writes, in one step. Two handlers have more than one outcome:
`UploadCandidateInterrupted` stops after the first insert, and `CreatePlacement` has an argument
`told` that says how many of its separately committed enqueues happened.

In `WebhookDelivery` a batch is split at its awaits. `Tick` is the timer's call up to the first
row, `Post` sends a row and suspends, `Delivered` and `Failed` are the continuations after the
await, `NoEndpoint` is the iteration that does not await, `HalfAnswered` the answer that never
ends, `Crash` the end of the process. Time is two-valued: a row is due or not yet. `Tick` and the
first row of a batch are one synchronous piece in the code and two steps in the model; the model
therefore has more interleavings than the code, never fewer.

`Accounts` details the account of `Platform`, which has only a status: here it also has an address,
a key, roles and sessions. Keys are random and never compared with one another in the model: `held`
says whether anybody holds the key whose hash is stored. A handler with several separately committed
statements has an argument for how far it got: `granted` for the roles that registration inserted,
`reached` for the steps of `verifyOtp`, `held` for whether the answer with the new key was sent.
Time is two-valued: a code or a session has run out or not, an address was registered today or not.
`compared` and `bought` are history: how many calls for a code went as far as the comparison and how
many keys it bought. A request made with a session is the part of it that writes: `SwitchRole`, which
`resolve` does before the middleware looks at the account.

In `Workbench` and `PmRepositories` a table is a function whose domain is the set of ids that exist,
because here rows are deleted and deletions cascade. An operator of `PmRepositories` is one
transaction of a repository; an action of `Workbench` is one endpoint, which calls it. `minted` are
the ids ever drawn, so that none is drawn twice. `decomposeProject` is two actions: it reads, and
joins `sleeping`; `decomposeWakes` is the rest of it. A position keeps what its score is made of and
its counts, a candidate is the set of its profiles; recomputation keeps the score of any one of them,
because the query that lists them has no order. `Snapshot` and `Dashboards`, `AdminPages` are
operators, one per query, translated join by join: a row that a join drops is missing from the
operator's value too. `recommendations` of the workbench is what its snapshot reads of the table of
that name: a row that names no position, and whether it was picked up. A SUM is the number of pairs of a row and a number up to its column.

In `Limits` time is discrete and a call takes none; the weighted estimate, a fraction in the code,
is compared after multiplying by the window. `passed` and `asked` are history: how many calls
were let through until each tick, so that a stretch of ticks is a difference of two of them.
`rateLimitMiddleware` has an argument for the header `X-RateLimit-Skip: 1`, with which a call goes on
unchecked and uncounted; calls that were let through are those without it. In `Quota` a reset time is
kept as what it is to the next midnight: `quota_reset_at` is 24 hours after the registration
(`later`, then `today` once the first midnight has passed), the next midnight after each reset, or
`passed`. `DayBreaks` is a UTC midnight and `FirstDayEnds` the hour of the registration on the next
day; only a row whose time has passed is due (`modules/cron/scheduler.ts:48`). The
server may be down on any midnight, and its midnight need not be that of UTC.
`Notifications`, `WebhookInbox` and `Desk` share the ids they draw. `Capabilities` has the two prices
of every endpoint: the declared one, and what the handler behind it charges; a call that is charged
is the only part of an endpoint `Portal` needs, the rest being in the other modules. The routers
appear as the dispatch in the next-state relations: which role may call which action.

**Left out of the modelled handlers.** Quota, in the modules other than `Portal`: every handler that
consumes it may refuse for lack of it, and the model covers that by never having to act.
Notifications and view tokens: nothing in these handlers reads them. Payloads: a queue row keeps whether it holds contact details, and for
whom. The position of a card inside its column. Columns a headhunter makes by hand; the five
seeded ones stand for the stages.

## 3. Runs

| Run | Module, cfg | Question | Result |
|---|---|---|---|
| `consent` | MCRecruitment, Consent | two employers, two headhunters, a candidate, a job, a profile, suspensions, referrers, all five stages: do the tables keep their promises and implement the unlock protocol, and do the pages read from them agree? | passes, 91,758 states |
| `two_profiles` | MCRecruitment, TwoProfiles | two candidates and two profiles, which may be of one person: does applying stay single, does erasure reach every profile? | passes, 113,464 states |
| `delivery` | WebhookDelivery, Delivery | three rows, one of them without an endpoint, two overlapping batches of at most two, two attempts, one fault, one retry by the administrator | passes, 203,487 states, with liveness |
| `accounts` | MCAccounts, Accounts | two accounts, an address, a session, two codes with one attempt each: codes, roles and sessions under every interruption, suspension and erasure | passes, 448,725 states |
| `workbench` | MCWorkbench, Workbench | two managers and a stranger, two projects, two positions, three plans, a decomposition, two candidates of whom one has two profiles and one leaves, a recommendation: do rows, selection, ownership, rankings and reads hold together? | passes, 36,422 states |
| `limits` | MCLimits, Limits | a user in two windows, an address that registers, an address that asks codes for two e-mails, limits that change, clean-ups, restarts: how large can bursts be? | passes, 77,511 states |
| `portal` | MCPortal, Portal | two headhunters, one of them registered that day, and a manager with notifications, messages, tasks, notes, metered calls, deliveries and the scheduler: is anything counted twice, shown to another, offered in vain, or withheld for good? | passes, 206,496 states, with liveness |
| `double_owner` | MCRecruitment, DoubleOwner | does one hunter own an application? | violated: finding 1 |
| `upload_after_erasure` | MCRecruitment, UploadAfterErasure | is an erased candidate without contact details? | violated: finding 2 |
| `claimed_forever` | MCRecruitment, ClaimedForever | can an employer close a claimed job? | violated under fairness of closing: finding 3 |
| `fifth_attempt` | WebhookDelivery, FifthAttempt | is a row tried at most `max_attempts` times after its first? | violated: finding 4 |
| `switched_role` | MCAccounts, SwitchedRole | is a session admitted in the role it acts in? | violated: finding 5 |

**Bounds and why they suffice.** Every row of the tables belongs to one recommendation, whose
handlers read only its own job, profile and parties, so races show up with one recommendation and
two of each kind of rival: two employers claim, two headhunters pick up, claim, upload, refer. A
second profile and a second candidate matter only where handlers look over all profiles of a
person, which `two_profiles` is for; it leaves out the board and suspensions, which do not read
profiles. `Suspendable` and `Referrers` bound whom the administrator suspends and whom a
recommendation may name as referrer. `ColumnStages` are the stages a board's columns have. The
state space is finite without further bounds: tables only grow within their keys. In `delivery`,
`Batches` bounds how many overlap, `MaxFaults` and `MaxRetries` how often the process dies and the
administrator retries; two attempts show both branches of the status decision, three rows with
batches of two leave one for a later batch. In `accounts` two accounts may share an address (after a
day, or when one is suspended or erased) and race for a session; two codes of one address show the
older one becoming active again; with one attempt the second call is the refused one. `UserTypes` is
one type there, which still acts in all three roles: of two types only registration's second look at
an address would be new, and no property depends on its refusals. Refused calls beyond one per code
and the clock passing over a used code or a revoked session change nothing that is read. In `workbench`, `Budget` bounds the ids drawn in one behaviour to six, a position
counting two because it brings its matches along, and the recommendation one: enough for two projects with a position and
further plans, a bulk of two positions, or a row drawn again after a deletion cascaded; `senior`
asks for everything and `open_to_all` for nothing, so that a score changes in each of its parts, and
the two profiles of one candidate score differently. In `limits`, `MaxTime` 8 is
four windows of the shorter and two of the longer kind, `OneLimitAtATime` follows a behaviour as long as it
is about users, registrations or codes, which have nothing in common but the clock and the job that
cleans up. In `portal` two row ids, one deduplication key and one body are enough for a thing to be
sent again after it was read, deleted, expired or cleaned up; a quota of two is met by one costly
call or two cheap ones, and the administrator may lower it to one, below what was used; one account
(`Newcomers`) registered on the first day, the others are due at its end; a note is its star (`Notes`
is empty), because whose note it is does not depend on its text. Deadlock is not
checked except in `portal`, which never stops: when every job is closed, every row settled, every id
drawn or the last tick reached, nothing has to happen.

**Symmetry** is declared for headhunters, candidates, profile ids, account ids, project managers and
the ids of the workbench, in the safety runs only.

**Fairness.** `ClosingSpec` assumes only that an employer keeps asking to close (weak fairness of
`CloseJob`): the counterexample shows that asking does not help. `FairSpec` of the worker assumes
weak fairness of the timer (`setInterval` in `server.ts`), of a batch going on to its next row and
of a request ending (the worker gives `postJson` a timeout), and of time passing. It assumes
nothing of receivers, who may fail for ever, of the administrator or of enqueuing. Faults are
finitely many by their bound: with a crash at every attempt nothing could be promised. `Spec` of
`Portal` assumes weak fairness of the day breaking and of the scheduler's reset, which
`modules/cron/scheduler.ts` starts at every midnight on which the server is up. It assumes nothing of
the hour of registration, which the next midnight passes as well; an administrator may
go on suspending and reinstating, and users calling, for ever.

## 4. Properties

Tables (`Recruitment`):

- `RecEmployerOwnsJob`: the employer copied into a recommendation owns its job for good, although
  claim, rejection and recommendation race for unowned jobs.
- `ApplicationMirrorsRecommendation`: `recommendations` and `candidate_applications` agree on the
  pickup hunter and on who waits.
- `OneActiveApplication`: one application under way per person and job, over all profiles.
- `ContactFollowsConsent`: a contact in the queue is for the employer who asked, after the
  candidate's approval or own application, and the log has exactly those entries, in order.
- `UnlockedIffQueued`: status, log and queue move together.
- `NoReleaseAfterErasure`: no contact of an erased candidate is queued any more.
- `PlacementIsEarned`, `AnnouncedPlacementExists`, `SettledPlacementIsFinal`: who is paid, that
  nobody hears of a placement that does not exist, that paid and cancelled are final.
- `OwnershipIsSticky`: no headhunter column is overwritten.
- `BoardBelongsToOwner`: a card moves only by a call of the headhunter who owns it, or claims it by
  that call; no other headhunter's call, on whichever recommendation, no employer's, candidate's or
  administrator's moves it, and finished cards stay.
- `ImplementsUnlockProtocol`: the tables refine `UnlockProtocol`, whose four steps are offer,
  request, grant and release, with refusal at every point; the mapping takes the phase from the
  status, the owner from `employer_id`, and the released contacts from the queue.

Worker (`WebhookDelivery`): `SuccessWasAcked`, `PendingHasAttemptsLeft`, `OvershootIsBounded`, and
the liveness property `EventuallyAllSettled`.

Accounts (`Accounts`):

- `CodesAreSpent`: a code is compared at most `OTP_MAX_ATTEMPTS` times and buys one key at most,
  however calls for it and for other codes of the address alternate and wherever they are cut off.
- `SessionRoleIsHeld`: sessions act in roles that were granted, although registration may end
  between two grants and one-time codes make accounts without any.
- `EndedSessionStaysEnded`: revoked and expired sessions never come back.
- `InactiveAccountsRest`: a suspended or erased account gets no key, address, role or session.

Pages (`MCRecruitment`, from `Dashboards` and `AdminPages`):

- `PagesAgree`: what headhunters, candidates, employers, administrators and the public read of the
  same rows agrees: boards with counts, the queue with the applications, the market with what can
  still be claimed, the employer's figures with the commission's rows, the console's listings with the users' lists, and
  the log however it is read. Where pages do disagree in the code, the property says how exactly (section 6).

Workbench (`Workbench`, `Snapshot`):

- `NoDanglingRows`: nothing outlives what it hangs on, nor appears after it, although a decomposition
  sleeps across deletions.
- `OneSelectedPlan`, `SelectionSurvives`: two never, and none only when the selected one is deleted.
- `PmIsolation`: no call of one manager changes a row of another's projects, whatever ids it carries.
- `RecomputeIsComplete`: when the matches of a position change, all of them are of the position as it is.
- `ReadsAgree`: lists, detail, statistics and the snapshot's funnel give the same numbers through
  different joins. The snapshot's activity is longer than the manager's match events by every
  recommendation of the platform: see section 6.

Limits (`Limits`):

- `BurstsAreSmooth`: what a sliding window is for: two adjoining ticks on the two sides of a window's
  end hold no more than the limit, and longer stretches no more than their share, also while the
  administrator changes the limit. It is about calls without the skip header; those with it are bounded
  by nothing: see section 6.
- `CleanupIsInvisible`: the job that deletes expired counters changes no estimate, now or later.
- `CodesAreSpaced`: what the fixed windows in memory do guarantee about codes, on which `Accounts` relies
  when it takes the newest code for the last one sent.

Everyday use (`Portal`):

- `SentTwiceCountsOnce`: one unread notification per key; one row and one id per delivered body.
- `DesksAreApart`: nobody's call changes another's pages, but for a message that arrives unread.
- `MenuIsHonest`: what the menu of an account says of each endpoint is what a call would find, with
  the exceptions of section 6 named in the property.
- `QuotaComesBack`: liveness: an account that stays active has its quota back again and again, also after
  a suspension over midnight, a midnight on which the server was down, or the first midnight, which
  passes a new account over: see section 6.

`PROJECT.json` gives for every property of a passing run a mutant: a small, plausible change of one
handler, defined next to the original under its name with a suffix, under which TLC finds the
property violated. Mutants are not part of the specification.

## 5. Proofs

TLAPS proves every safety invariant and every action property that the passing runs check, and the
refinement, for every value of the constants that their assumptions allow: any number of accounts,
jobs, profiles, projects, positions, notifications; any limits, windows, quotas and numbers of
attempts. `PROJECT.json` lists the theorems with the property each of them states.

| Module | Theorems |
|---|---|
| `Recruitment_proofs` | `TypeCorrect`, `RecommendationsStayWithOwner`, `ApplicationsAgree`, `OwnershipSticks`, `SettlementIsFinal` |
| `Consent_proofs` | `ContactNeedsConsent`, `StatusLogAndQueueAgree`, `ErasureStopsReleases`, `TablesImplementProtocol` |
| `Hiring_proofs` | `OneApplicationAtATime`, `CardsAreTheOwners`, `PlacementsAreEarned`, `AnnouncementsAreTrue`, `PagesTellOneStory` |
| `WebhookDelivery_proofs` | `TypeCorrect`, `SuccessIsAcknowledged`, `StatusFitsAttempts`, `OvershootBound` |
| `Accounts_proofs` | `TypeCorrect`, `RolesAreHeld`, `CodesAreBounded`, `EndedSessionsEnd`, `InactiveOnesRest` |
| `Workbench_proofs` | `TypeCorrect`, `NothingDangles`, `OnePlanIsSelected`, `RankingIsWhole`, `SelectionIsKept`, `ManagersAreApart`, `ReadsTellOneStory` |
| `Limits_proofs` | `CountsKeepTheirLimits`, `CleanupForgivesNobody`, `CodesStaySpaced`, `BurstsStaySmooth` |
| `Portal_proofs` | `RepetitionsCountOnce`, `MenusAreHonest`, `UsersAreApart` |

*Recruitment.* The inductive invariant `IInv` is the conjunction of `TypeOK`, `RecEmployerOwnsJob`
and `ApplicationMirrorsRecommendation`. `TypeOK` alone is not inductive: handlers read the profile
and the job behind a recommendation, and that those rows exist is part of `RecEmployerOwnsJob`. That
one in turn is kept by a claim because the claim writes `employer_id` only while it is `NULL`, while
a job with a recommendation has an owner: the recommendation's copy of it, which is typed as an
employer. There is one lemma per role, one step per handler and, under it, one per conjunct the
handler can disturb. The two action properties follow from `IInv`: a pickup overwrites nobody because
the application mirrors the recommendation, so a row waiting for pickup has an empty column.

*Consent.* The many handlers move a recommendation in only a few ways. `StepKinds` shows that a
step leaves every status, log and contact alone (`Quiet`), or moves one recommendation in one of eleven
ways while all others rest (`Moves`), or erases a candidate, which may end several at once (`Erases`); what
follows is proved kind by kind. None of the three properties is inductive: which entries the log has when the
contact is queued depends on how the recommendation came to be `candidate_approved`. The strengthening
`History` says for each status what the log and the queue hold at that moment: no contact before
delivery, the approval there exactly when the status says so or the offer was accepted, afterwards
the two entries in order and one row for the owner. It also says that a
recommendation is approved or unlocked only while its candidate is not erased, since erasure withdraws them
all: hence no contact of an erased candidate is released. The refinement is proved step by step: the
initial tables map to the initial protocol, each kind maps to one of its steps, to several
withdrawals at once, or to a stutter.

*Hiring.* `OneActiveApplication` is inductive together with `IInv`: `apply` looks at all
profiles of the person, and no other handler makes an application or takes a closed one up again.
`BoardBelongsToOwner` needs that a recommendation nobody owns is in the first column (`Unclaimed`): no
card outlives its owner, and no pickup moves one. That its mover is its owner is shown caller by caller:
a headhunter's call that changes a stage is his move, claim or removal of his own card
(`CallerOwnsTheCard`), hence no other's call explains the step (`OnlyTheOwnerMoves`), and
what employers, candidates and administrators call leaves every stage alone (`OthersLeaveStages`). `PlacementIsEarned` needs `OnePerHire` and that the
payees are those that the recommendation and the posting named (`Earned`), which later handlers do
not rewrite. `PagesInv` adds what the pages take for granted of the tables: a posting that was
claimed has somebody, log and queue name the recommendation's own parties, a claimed application is
its owner's. `PagesAgree` is then a statement about states: that one page's rows are another's under
a one-to-one translation, or are split by a status, for which the tables must be finite.

*WebhookDelivery.* `OvershootIsBounded` is not inductive: a row's attempts grow when any batch
fails. The strengthening counts the batches that still hold a row: attempts plus holders stay below
`MaxAttempts + Cardinality(Batches)`. A batch can come to hold a row only while the row is pending,
hence with fewer than `MaxAttempts` attempts, and there are at most as many holders as batches;
every later failure moves one from the holders to the attempts. The other conjuncts tie in-flight
rows to rows that were enqueued and have an endpoint.

*Accounts.* The inductive invariant has three parts that different handlers write: accounts and
roles, sessions (`SessionRoleIsHeld`), codes (`Counted`). `CodesAreSpent` alone is not inductive: a
call may compare only while attempts are left, so the strengthening says that a code was compared at
most as often as its row counts, and that a code which bought a key is consumed, hence never active
again. `SessionRoleIsHeld` is kept by a registration because it writes the roles of an account that
did not exist, and no session is of such an account. The lemmas `AccountWritten` and `CodeWritten`
say what a handler that writes one row has to show; the action properties follow from the invariant
with one step per group of handlers.

*Workbench.* The invariant is `TypeOK`, `NoDanglingRows` and `OneSelectedPlan`, taken apart table by
table (`Sound`) because a repository's transaction writes few of them. It is inductive because ids
are drawn fresh: what a sleeping decomposition names cannot come back after it was deleted. Scores
lie between 10 and 98 for any skills, levels and salaries (`calculateMatch`, part by part).
`PmIsolation` follows from what each endpoint checks first: it works on a project of the caller
(`WorksOn`) and leaves every other project's rows as they are (`Elsewhere`). `ReadsAgree` compares sums: of the
positions of a manager, of the matches of his projects. `PartsAddUp` says that a finite set
which is split into parts has as many members as the parts together, and `SumsAddUp` that the same is
true of a column's sum; each figure of the snapshot is then the sum, over projects, of the
figure that the project's own page shows. The activity is a union of two disjoint parts, of the match
events, one per row of a match, and of an event per recommendation.

*Limits.* A call with the skip header changes nothing, so the theorems are about the others. `IInv` is about rows and counters: each row expires two windows after its start, none counts
above a limit that its window had. It gives `CleanupIsInvisible`, since an estimate weighs a window
until two windows after its start and no longer, and `CountsKeepTheirLimits`. What callers got is another matter, and needs `HistoryInv`,
which relates the rows to the history: a row counts at least the calls that were let through in its window as
long as the estimate can read it (`RowsCount`); and if anything was let through in this
window, the last call was within the limit by the weights of now (`WasAdmitted`). The latter stays
true as time passes because the earlier window weighs less and less, and a new window starts without calls. From these, arithmetic about shares of a window gives
`BurstsAreSmooth`. For codes, `CounterIsExact` ties a counter to the requests since it began
and keeps that the counter before it was within its limit; `CodesAreSpaced` adds two adjoining counters.

*Portal.* Ids are drawn fresh, so a row that is inserted replaces none. `SentTwiceCountsOnce` is kept by
`send` because it looks for the unread row with its key, expired or not. For `MenuIsHonest` it is shown
once, for every endpoint, that the price declared is at most the price charged and differs only for the
listed exceptions (`Covers`); the rest is arithmetic over quota and usage. `DesksAreApart` follows from
the guards, action by action.

**Assumed of the constants.** The three kinds of account are disjoint (`UserTypesAreDisjoint`);
what is suspended, referred or metered is among the accounts (`BoundsAreWithinTheSystem`,
`QuotaAssumption`, `NotificationsAssumption`); `NULL` is no row, no id, no key and no number
(`NullIsNoRow` and others); limits, windows, quotas, prices, headcounts and counts of attempts are natural
numbers, positive where the code divides by them or counts up to them; code ids are numbers, because a
later code has the greater one. Some sets are finite, as those of a database are: accounts, jobs and profiles, where pages count
them (`PagesAssumption`), positions and candidates of the workbench (`WorkbenchAssumption`), windows
and batches. `PagesAssumption` also wants one employer account, `LimitsAssumption` a greatest limit that an administrator
sets, because that is the limit `BurstsAreSmooth` is stated with. TLC
evaluates all of them in every run of the modules they belong to.

*Model-checked only.* `EventuallyAllSettled` and `QuotaComesBack`, because liveness under
fairness and `ENABLED` are out of the prover's reach; the five statements that the code violates, of
course, have runs and no theorem. What a recursive definition computes for every input cannot be
proved with this prover (the induction theorems take operators as parameters), which is why sums are
cardinalities and the history of `Limits` is cumulative; no proved module declares a `RECURSIVE` operator.

## 6. Where the code and what is said of it differ

1. **Two headhunters own one application** (`double_owner`). The board's claim
   (`db/repositories/hunter-kanban.ts:135`) gives a recommendation to a headhunter and leaves it in
   the pickup queue. `flows/recommendation.ts:19-20` says that pickup comes first so that a
   headhunter owns the relationship.
2. **Contact details after erasure** (`upload_after_erasure`). `uploadCandidate` does not look at
   the candidate's status. `modules/candidate/gdpr-handler.ts:10` promises aggregates "without
   keeping PII". Such details are never delivered: `NoReleaseAfterErasure` holds, because erasure
   also ends the candidate's ability to approve.
3. **A claimed job cannot be closed** (`claimed_forever`), although `flows/job.ts:25` declares it
   and `flows/job.ts:11-12` tells the employer to.
4. **More attempts than documented** (`fifth_attempt`). Overlapping batches post one row once each.
   The document `docs/superpowers/skill.md:970` of the repository speaks of three retries.
5. **A switched session is admitted nowhere** (`switched_role`). A session acts in `active_role`;
   the gate of the routes compares that, the handlers behind it compare the account's `user_type`
   (`modules/auth/middleware.ts:149` keeps the registered one). `docs/superpowers/skill.md:383`
   tells the caller who meets a 403 to switch the role.

Without a run, for the reader of the code: after a refusal the same profile cannot be applied or
recommended with again, whatever `db/repositories/recommendations.ts:26` says, because of
`UNIQUE(anonymized_candidate_id, job_id)`; no handler applies the event `place`, so a recommendation
stays `unlocked` after its placement; an application that was picked up but not claimed on the board
has no `headhunter_id`, and its placement fails on a foreign key (`modules/commission/handler.ts:93`);
`accept_offer` grants the unlock without a row in `unlock_audit_log`, which is why
`ContactFollowsConsent` has its second case; a contact queued before an erasure is still posted
after it; an account made by a one-time code has no roles, so that its owner cannot log in with the
key it bought (`routes/auth.ts:83`), only call with the key; a request with a session and no role
header acts in the role last switched to, where `docs/superpowers/skill.md:389` says the one the
session was created with; login looks at one row per twelve-character prefix of a key
(`db/repositories/users.ts:22`), the middleware at all of them; a day after a registration the same
address may be registered again for the same role, and a code for it then serves one of the two.

The snapshot of a project manager shows what is not his. `modules/pm/snapshot.ts:17-19` says that
candidates of another manager are never included; the first half of its activity
(`modules/pm/snapshot.ts:277-295`) keeps every recommendation whose `position_id` is `NULL`, and as no
statement writes that column, every manager reads every recommendation of the last day, whichever
headhunter, employer and candidate it is of. `tests/integration/pm/snapshot.test.ts:440-470` passes because it
writes the column itself. `ReadsAgree` states the activity as the code makes it.

The workbench: a committed decomposition does not remember it, so that a retry doubles its positions
(`modules/pm/decompose.ts:219`); matches of candidates who were suspended or erased stay listed
(`modules/pm/matches.ts`); a plan goes on naming positions that were deleted; the snapshot's activity
never names a project for a recommendation, and the sandbox of a position is always empty, because no statement writes
`recommendations.position_id`; the migration has a position status `cancelled` that the schema does
not admit.

Limits and quota: any caller may send `X-RateLimit-Skip: 1` and is then bound by no limit
(`modules/rate-limit/middleware.ts:31`), in every deployment, where the comment above it (`:28-30`) says
"for local dev / automated testing only" of the switch it stands beside and
`docs/superpowers/skill.md:2226` gives the header as a debugging aid; `RATE_LIMIT_ENABLED=false`
turns the limits off for everybody, and no model has it. `docs/superpowers/skill.md:871-873` says that the first UTC
midnight after a registration aligns `quota_reset_at` with that of the other accounts; the reset
(`modules/cron/scheduler.ts:48`) passes the account over there, 24 hours not being over, and aligns it at
the second, so that what it used on its first day stays used through the whole of the second. A call that one window denies is counted by the other windows all the same, and
a caller at the limit who waits for the announced `Retry-After` (`docs/superpowers/skill.md:915-917`)
may be denied again, because the calls before it still weigh; after an administrator lowers a quota below what was used, even
free endpoints are shown as `INSUFFICIENT_QUOTA`, and work; `headhunter.list_recommendations`,
`list_candidates`, `delete_my_data` and the rotation of a key are declared free and cost one
(`modules/headhunter/handler.ts:221`, `routes/headhunter.ts:164`, `modules/candidate/gdpr-handler.ts:59`,
`routes/auth.ts:170`); `/v1/capabilities/me` shows only the first set of a role; `resetDaily` and
`resetAllExpired` of the quota manager have no caller in the program; any user may read any user's
quota at `/v1/users/:id/status` (`routes/users.ts:22`).

Notifications, messages, tasks: an expired unread notification is revived by the next one with its key;
`unread_only` of the messages filters after the page was cut; a task's due date, once set, cannot be
cleared (`db/repositories/hunter-tasks.ts:79`).

Pages: the profile of an erased candidate stays in the public pool; a picked-up recommendation is on no
hunter's board and in nobody's statistics; the landing page's latest placements are always empty,
because it asks for a status `placed` that no placement has (`modules/view/gather-landing-data.ts:263`);
the employer's dashboard counts approved contacts as unlocked and cancelled placements as spend
(`modules/employer/dashboard.ts:114`); the landing page and the market list claimed jobs, which apply
refuses; the pickup queue shows an application once per profile (`db/repositories/candidate-applications.ts:88`);
the console's jobs hide postings that nobody owns, and its statistics have no column for claimed ones; its
timeline of a candidate looks the private row up by the id of the anonymised one
(`modules/admin/handlers/timeline.ts`), and its filter of candidates by unlock status names a column
that does not exist (`modules/admin/handlers/candidates.ts:21`).

## 7. Not modelled, and why

- Cipher, HMAC and desensitisation of texts: library code, and tables from texts to coarser texts that
  no property tells apart.
- The sandbox page of the workbench: it reads rows that no statement writes.
- View tokens and page templates, the candidate's profile form (`updateProfile` edits texts, and a
  visibility that no query reads), the detail of a message, the order of recommended jobs
  (`lib/matching.ts`), the amounts of a commission (`modules/commission/calculator.ts`): written once, or
  only formatted and summed.
- The administrators' own login, their logs and the configuration keys other than the limits.
- `modules/idempotency`: no route uses it.
- Validation of texts, response formats, start-up, seeds.
- Audit log of requests, metrics, telemetry: written, never read by a handler.
- The user interfaces `admin-web` and `shared-web`: clients.

## 8. Plan

The models are complete as far as section 7 allows, and the safety properties of all runs are proved.
What is left would say more about the parts that the properties do not pin down yet:

1. `WeightedMatch`: that a score is monotone in each of its parts, beyond its bounds.
2. `AdminPages`: the console's figures about placements, per headhunter.
3. The hazards in `PROJECT.json` that no property covers, each with the reason beside it.
4. The assumption of a greatest limit in `Limits`: a bound that follows the largest limit set so far
   would need it as history.
