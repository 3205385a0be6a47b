# git-sensor in TLA+

git-sensor keeps a checkout of every git repository ("git material") a devtron
installation builds from, fetches it every few minutes, finds the new commits
of the branches that CI pipelines follow, writes them to PostgreSQL and
announces them on the message bus. This directory holds TLA+ models of that
program, TLC configurations that check them, and TLAPS proofs about them. Paths
below are relative to the repository's root.

- [1. The system](#1-the-system)
- [2. The modules](#2-the-modules)
- [3. What the runs check](#3-what-the-runs-check)
- [4. Bounds](#4-bounds)
- [5. Fairness](#5-fairness)
- [6. What is proved](#6-what-is-proved)
- [7. Where the code departs from what it says](#7-where-the-code-departs-from-what-it-says)
- [8. What is not modelled](#8-what-is-not-modelled)
- [9. Plan](#9-plan)

## 1. The system

| Component | Code | State it keeps | Operations |
|---|---|---|---|
| RepositoryLocker | `internals/Lockutil.go` | map from material id to a counted mutex | LeaseLocker, ReturnLocker, Lock, Unlock |
| Watcher | `pkg/git/Watcher.go` | cron, worker pool; otherwise the tables and the checkouts | Watch, PollAndUpdateGitMaterial, NotifyForMaterialUpdate, SubscribeWebhookEvent |
| RepoManager | `pkg/RepoManages.go` | none of its own: tables, checkouts | AddRepo, UpdateRepo, ResetRepo, ReloadAllRepo, SavePipelineMaterial, GetLatestCommitForBranch, RefreshGitMaterial, SaveGitProvider, queries |
| RepositoryManager, GitManager | `pkg/git/RepositoryManager.go`, `GitBaseManager.go`, `GitCliManager.go`, `GoGitSDKManager.go` | the directories on the volume | Add, Fetch, Clean, InitRepo, ChangesSince, ... by the git cli or by go-git |
| Tables | `internals/sql` | git_material, ci_pipeline_material, git_provider, webhook tables | full-row Update, Save, Find... |
| Webhook handling | `pkg/git/Webhook*.go` | webhook tables | HandleWebhookEvent, MatchCiTriggerConditionAndNotify, NotifyForAutoCi |
| Release analytics | `pkg/git/RepositoryManagerAnalytics.go` | none | ChangesSinceByRepositoryForAnalytics (computeDiff) |
| SSH keys, credentials | `pkg/git/Util.go` | key files, one per provider | GetOrCreate..., CreateOrUpdateSshPrivateKeyOnDisk |
| Timeouts | `pkg/git/GitContextUtils.go` | a goroutine per call | RunWithTimeout |
| API | `api` | none | gRPC and REST handlers, conversions |
| Application | `app`, wiring | servers, cron | Start, Stop |

**Interaction.** A cron job calls `Watch` every `POLL_DURATION` minutes; it
submits one poll per active material to a worker pool. gRPC and REST requests
run in goroutines of their own. Both touch the same three things: rows of
`git_material`, rows of `ci_pipeline_material`, and the material's directory.
The directory is protected by the material's lock in `RepositoryLocker`. The
rows are not always: handlers read a row, wait for the lock, work, and write
back *all columns* of the row they read; `SavePipelineMaterial`, the first half
of `UpdateRepo` and the webhook handler take no lock at all. The remote
repository changes at any time. New commits go out on `NEW_CI_MATERIAL_TOPIC`,
before the rows are written.

**What is hard here**

- lost updates of rows between locked and unlocked handlers;
- the update report of `git fetch` is consumed by whoever fetches first: a
  poll looks at the rows only if *its own* fetch moved something;
- fetch, listing, message and write are four steps, each of which can fail or
  be the last one before a restart;
- a checkout removes the directory first and fetches later, and the caller may
  go away, the disk be full or the fetch fail in between;
- the counted lock bank itself: leases and returns of different goroutines
  around one mutex that is created and dropped with its last user;
- two git implementations which differ in what they do with a missing
  directory and a root commit;
- a round of polls ends when the slowest poll ends, and a git command need not;
- the ssh key file of a provider is shared by all its materials, truncated and
  filled without a lock, by handlers that read the key at different times;
- the API answers from tables that other handlers write in several queries, and
  from a directory that is wiped and fetched again.

**What makes each component correct**

| Component | Properties |
|---|---|
| RepositoryLocker | one goroutine per material; the entry of a leased lock is never replaced; counters are exact; every waiter is served |
| Poll | rows are announced before they are written; each commit once; nothing is skipped; a row converges to its branch's head; history and hash fit together |
| Rounds of polls | rounds do not overlap; every material that is checked out is polled in the next rounds whatever failed in this one; every call is answered; the polls repair the key file |
| Queries | what is listed is found; the two ways to ask for a head agree; path rules mean the same in messages and lists; a pipeline that was told of an event finds it with its data |
| Handlers of pipeline rows | what a client saved stays; hash and history stay together |
| Handlers of materials | the checkout status tells the truth; deletion is final; nothing is left on the volume; a lost directory is repaired; what a client wrote stays |
| Webhooks | one row per event and one active mapping per pipeline and event; every pipeline that accepts an event is told of it, after its mapping is stored; lists of events and filters agree |
| Release analytics | computeDiff is the set of commits that the new commit has and the old one has not |

`PROJECT.json` lists every component with its status, and under "hazards" every
place of the code that is hard to test, with the properties aimed at it.

## 2. The modules

```
MaterialMutex                 one lock per material, as the handlers use it
   ^ implemented by              ^ INSTANCE             ^ INSTANCE
RepositoryLocker              GitWatcher              MaterialCheckout
   ^                             ^                       ^
MCRepositoryLocker            MCGitWatcher            MCMaterialCheckout     (TLC)
RepositoryLockerProofs        GitWatcherProofs        MaterialCheckoutProofs (TLAPS)
                                 ^
                              CommitFlowProofs                               (TLAPS)

GitWatcher   PathRules        SshKeys   MaterialMutex
   ^            ^                ^         ^ INSTANCE
PipelineQueries               PollRounds      rounds of polls, RPCs, the key file
   ^                             ^
MCPipelineQueries             MCPollRounds                                   (TLC)
PipelineQueriesProofs         PollRoundsProofs                               (TLAPS)
   (over CommitFlowProofs)

WebhookEvents   messages of git hosts, alone: it takes no lock
   ^
WebhookQueries  what the API answers about them
   ^
MCWebhookEvents                                                              (TLC)
WebhookEventsProofs                                                          (TLAPS)

ReleaseDiff     the algorithm of the release changes, alone
   ^            ^
MCReleaseDiff   ReleaseDiffProofs                                            (TLC, TLAPS)
```

**MaterialMutex** is the abstract specification of the lock bank: goroutines
request, enter and leave the critical section of a material. The two modules of
handlers are written over it, and `RepositoryLocker` is shown to implement it:
`stage` and `on` of its goroutines are read off their program counters.

**RepositoryLocker** is `internals/Lockutil.go` with the protocol every caller
follows (`LeaseLocker; Lock; ...; Unlock; ReturnLocker`). `Bank`, `counter` and
`owner` are the map, the counters and the mutexes; `pc`, `req`, `ref` the locals
of the callers. A lock is an object with an address which may be used again.
LeaseLocker and ReturnLocker run under `RepositoryLocker.Mutex` from their first
line to their last and are one step each.

**GitWatcher** is one material's commits and `ci_pipeline_material` rows:

| TLA+ | code |
|---|---|
| `remote`, `log`, `made` | the git server: branch heads and the history behind every commit |
| `refs` | `refs/remotes/origin/*` of the checkout; 0 if there is none |
| `row[p]` | `Value`, `Active`, `LastSeenHash`, `CommitHistory`, `Errored` of a row |
| `checkedOut` | `CheckoutStatus` of the material's row: cron polls, and GetLatestCommitForBranch fetches, only if it is set |
| `pubs[p][c]` | messages published for pipeline p and commit c, counted up to 2 |
| `job[h]` | where handler h is, the rows it still has to treat, the rows it will write |
| `PollFetch`, `PollList`, `PollNotify`, `PollSave` | the poll: lock and fetch, FindByGitMaterialId and the loop, one message, the Update |
| `Return`, `ReturnUnsaved` | the poll's write of the material's row, which may fail, and the unlock |
| `LatestFetch`, `ListActive`, `CommitRead`, `CommitSkip`, `CommitWrite` | GetLatestCommitForBranch with updatePipelineMaterialCommit |
| `CheckoutWipe`, `CheckoutFetch`, then as before | checkoutMaterial as seen from the refs and rows; a failing fetch clears `checkedOut` |
| `SaveCall`, `SaveUpdate`, `SaveInsert`, then `CommitRead`, `CommitWrite` | SavePipelineMaterial, without the lock |
| `Abort` | a failing query or a vanished caller between steps |
| `Crash` | restart: the handlers are gone, tables, refs and messages stay |

`ChangesSince` is `ChangesSinceByRepository` over what `GetCommitIterator`
yields: with go-git the log of the branch, cut before the last seen hash and at
`GitHistoryCount`; with the cli the log of `from^..branch`, which git refuses if
`from` has no parent.

**MaterialCheckout** is one row of `git_material` and the directories its urls
map to. Each handler is modelled with the row it read (`job[h].mat`), so a
stale write is visible: PollCall to Return is pollAndUpdateGitMaterial, with the
row read under the lock; ResetCall, AddCall and LatestCall read it before they
wait; UpdateCall and UpdateChange read and write it before they wait; WebhookRead
and WebhookWrite never lock. CheckoutWipe, CheckoutInit and CheckoutFetch are
checkoutMaterial with its exits for a vanished caller, a full disk, a failing
fetch and missing credentials; UpdateClean removes the directory of the row
before the update.

**PollRounds** is what GitWatcher takes for granted, that polls of a material
come again and again and end:

| TLA+ | code |
|---|---|
| `Tick`, `watch` | the cron entry and SkipIfStillRunning: no tick while Watch runs |
| `WatchFails`, `WatchPanics`, `Submit`, `RoundEnds` | Watch: FindActive, the chain's Recover, RunOnWorker, StopWait |
| `checkedOut` | the materials with CheckoutStatus; `Submit` queues these only, as FindActive lists no others |
| `queue`, `Work` | the worker pool |
| `Call`, `SaveCall` | RefreshGitMaterial, ResetRepo and its like, GetReleaseChanges; SaveGitProvider |
| `Lock`, `LockFails` | the material's lock; a poll and a checkout read the provider under it |
| `Return`, `ReturnUnsaved` | the material's row is written, with the CheckoutStatus that a poll or checkout found (`Status`), or that write fails; the deferred unlock |
| `Fetch`, `FetchFails`, `Failed` | git fetch; after a failure a poll writes the key and fetches once more |
| `Hang`, `Expire` | a git command that does not end; its context kills it, but CombinedOutput waits for children that keep the output open ("helper") |
| `OpenKey`, `FillKey`, `FillFails`, `Configure` | the key file and core.sshCommand |
| `WalkDone`, `WalkExpires` | RunWithTimeout around go-git's walk of a release |
| `PollPanics`, `Crash`, `KeyFlushed` | handlePanic of a worker; a restart; the volume of the keys is lost |

**SshKeys** has the state of one provider: its row, the key file and which
repositories name it. `ioutil.WriteFile` is two steps, truncate and fill, and two
of them may interleave. `GetOrCreateKeyFile` always writes: `os.IsExist` of a
`nil` error is false.

**PathRules** is PathMatcher. A filter is whether it has a "!" and the paths its
expression matches; `LastMatchDecides` says what the loop is for.

**PipelineQueries** puts the API's questions about branches on top of GitWatcher's
state, as operators, since they change nothing: `FetchChanges`,
`GetHeadForPipelineMaterials`, `GetCommitMetadata` of a hash or a branch and
`GetCommitMetadataForPipelineMaterial`. `FilterCommits` is the loop of
FetchGitCommitsForBranchFixPipeline over the commits of a row. `Shown` is a set of answers: git may
still have a commit that no branch leads to. GitWatcher's constant `Excluded` is
here the commits that `ExcludedBy` the rules.

**WebhookQueries** does the same with WebhookEvents: the events of a pipeline,
the data and variables of one event, the list of events with their counts of
filters, the filters of one event, and the configuration of a host.

**WebhookEvents** is the subscription to WEBHOOK_EVENT_TOPIC with the webhook
tables, against SavePipelineMaterial of pipelines of type WEBHOOK:

| TLA+ | code |
|---|---|
| `copies`, `Deliver`, `Late`, `Ack` | the message bus: a message comes again until it is acknowledged, and it is acknowledged when the callback returns, with or without an error |
| `named`, `Name` | git_host_name of the event configurations; a message under a name that none has fills it in, row by row |
| `parsed`, `mapping`, `results` | webhook_event_parsed_data, ci_pipeline_material_webhook_data_mapping, the active filter results of a mapping |
| `pipe[p]` | value of a pipeline's row, or `Malformed` (no JSON), or `Inactive` |
| `SaveParsed` | the round of HandleWebhookEvent for one configured event: look up by unique id, update or insert |
| `FindMaterials`, `Match` | MatchCiTriggerConditionAndNotify; `FilterResults` and `OverallMatch` are MatchFilter |
| `SaveMapping`, `Inactivate`, `SaveResults` | HandleMaterialWebhookMappingIntoDb and its filter results, three queries |
| `Notify` | NotifyForAutoCi if the filter matched |
| `Fails`, `Fault("save")`, `Fault("publish")` | a query fails and ends the callback; errors nobody looks at |
| `SaveCall`, `SaveMappings`, `SaveRow` | SavePipelineMaterial: the row is read, the mappings are turned off if the value changed, the row is written |
| `SaveRead`, `SaveWrite` | updatePipelineMaterialCommit at its end: the row is read again, no branch has its value's name, and all of it is written with Errored set |
| `checkedOut`, `errored` | the material's CheckoutStatus and the rows with Errored, which FetchChanges asks for |
| `CheckoutFetch`, `CheckoutRead`, `CheckoutWrite`, `CheckoutGivesUp` | checkoutMaterial as these tables see it: the status, then updatePipelineMaterialCommit for all active rows; the end of GetLatestCommitForBranch is the same with the fetch a success |
| `Refresh` | a poll that RefreshGitMaterial asks for sets CheckoutStatus again |

**ReleaseDiff** is computeDiff of `pkg/git/RepositoryManagerAnalytics.go`, one
action per way through its loop: `Start` takes the new commit's parents,
`Discard` drops a commit that was treated or that the old commit has (`Known`),
`StartWalk`, `Walk` and `Arrive` or `Branch` are getDiffTillBranchingOrDest.
`Ancestors` and `MergeBase` are what go-git computes; the stack is a set, so the
result is shown for every order. `LogMergeBase` is the variant for the git cli.

What is abstracted on purpose:

- a material has one row and a fixed name; materials interact only through the
  pool and the lock bank, and `RepositoryLocker` has several;
- commit histories are linear, pipelines of type BRANCH_FIXED (the poll skips
  all others);
- a client's SavePipelineMaterial has no LastSeenHash and no CommitHistory and
  saves one row;
- each kind of fault happens at most once in a behaviour;
- a filter of `FilterPattern` is the set of paths it matches, a commit's file
  statistics are the paths it changes, an error text is the fact of the error;
- `FilterPattern` does not change; PipelineQueries has no tags;
- in WebhookEvents updatePipelineMaterialCommit finds no branch (a webhook
  pipeline's value is JSON, not the name of one), and polls leave its rows alone;
- PollRounds has one provider, which exists, and leaves commits and rows to
  GitWatcher; the goroutine that RunWithTimeout leaves behind only reads and is
  not a process; UpdateRepo and AddRepo are its checkout;
- updatePipelineMaterialCommit reads a row and the log of its branch in one step;
- the material of MaterialCheckout that cron polls has a pipeline that follows it
  (Watch skips the others);
- in WebhookEvents the messages belong to one material, a payload is what each
  selector finds in it, and a regular expression is the set of texts it matches.
  The callback runs for one message at a time, the client's default;
- MaterialCheckout leaves out the second fetch for SSH (GitWatcher has it) and
  errors of os.RemoveAll.

## 3. What the runs check

All runs are in `PROJECT.json` with their properties and, per property, a
mutant: a plausible mistake in the code under which the same run fails.

| Run | Shows |
|---|---|
| RepositoryLocker | `MutualExclusion`, `LeaseCount`, `LockStable` (a leased entry is not replaced), `WaiterServed`, and `ImplementsMutex`: the bank is a MaterialMutex, fairness included |
| WatcherChaos | every operation, every fault, a forced push and a crash: hash and history of a row stay together (`HistoryHead`), and a message names a head that is on disk when it is sent (`PublishedIsHead`) |
| WatcherPoll | two pipelines, two polls, SSH, an excluded commit, a crash: a row is announced before it is written (`Announced`); a successful poll leaves no head unannounced (`RefreshNotifiesAll`) |
| WatcherLive | git cli, two pipelines, path rules, polls with GetLatestCommitForBranch and checkouts: no commit is announced twice (`NoRepeat`), histories are exact (`HistoryIsLog`), rows reach the heads if the material stays checked out (`Converges`); a commit that FetchChanges lists is found by the queries of the repository (`ListedAreFound`); heads of rows and of the repository agree after GetLatestCommitForBranch (`HeadsAgree`); messages and lists have the commits that the last matching rule includes (`RulesHold`). MCPipelineQueries also compares PathMatcher with its reference for all lists of up to three filters over two paths |
| PollRounds | two materials of a provider, two workers, a client, any fault: rounds do not overlap (`OnePollEach`), every material that stays checked out is polled again and again (`EveryMaterialPolled`), every call returns (`EveryCallReturns`), and once the right key is saved polls succeed for good (`KeyHeals`) |
| CheckoutEdits | all operations, all faults, a crash, one client besides cron: `DeletionFinal`, `NoOrphans` |
| WebhookEvents | two messages, two pipelines, one changed pipeline or one checkout, which may fail, and one fault: one row per event (`ParsedOnce`), one active mapping (`OneMapping`), lists of events and filters that agree (`PayloadsFit`), a message only after a stored match (`MappedBeforeTold`), once (`ToldOnce`), in the end to every pipeline that accepts the event (`EveryMatchTold`), which finds it with its data while the material is checked out (`ToldIsShown`) |
| ReleaseDiff | computeDiff ends (`Terminates`) with exactly the release's changes (`ChangesExact`), which are the cli's but for the new commit, if that is no merge and follows the old one (`CliAgrees`) |
| CheckoutHeals | two clients besides cron, go-git: `StatusTruth`, and the polls repair a lost directory (`Heals`) |
| WatcherLatestConsumes, WatcherSaveReverted, CheckoutHealsCli | counterexamples, see section 7 |

Premises. Several invariants hold only as long as certain things did not happen;
each premise is a real limit of the code and is written in the formula:

- `RefreshNotifiesAll` needs that only polls fetch (otherwise section 7), no
  crash between fetch and messages, no fetch that fails half way, and no lost
  message or failed write: after each of those the next poll sees no update and
  returns early;
- `Announced` needs that publishing works, since a failed one is only logged;
- `NoRepeat` and `HistoryIsLog` need that branches only grow (a forced push
  puts commits into the history twice) and that no fetch failed (a failing one
  of a checkout clears LastSeenHash). `NoRepeat` also needs that there was no
  crash and no failing query, with which a commit may be announced twice, as
  messages go out before the write;
- `StatusTruth` needs that nobody edits the material, no crash, no vanished
  caller and no database fault: checkoutMaterial then returns with the row
  unchanged and the directory wiped;
- `NoOrphans` needs one client at a time: two updates at once both clean the
  directory of the row they both read and leave the one checked out in between;
- `Heals` speaks of rows that are checked out: a row whose checkout failed is
  not polled again by design (`FindActive`);
- `Converges` and `EveryMaterialPolled` speak of a material that is checked out
  from some time on, for the same reason: one failing fetch of a checkout ends
  the polls by cron until a client checks the material out or refreshes it. The
  runs have such failures, also followed by a success;
- `EveryMatchTold` allows a crash and a late acknowledgement, and needs that no
  query or message fails (the event is acknowledged all the same), that nobody
  changes a pipeline, that no pipeline has an unreadable value (it ends the
  callback for those after it), and that no restart comes between the updates of
  git_host_name: messages are then handled for the named events only, for good;
- `ToldIsShown` needs that no other message came for the event (it overwrites the
  data), that not more than 15 events match (2 in the run), that nobody changes
  a pipeline and the parsed data are written. The material is checked out when
  FetchChanges is asked: updatePipelineMaterialCommit marks every webhook row as
  errored, and for such a row FetchChanges answers "repository error" and lists
  no event after a failed checkout, while the pipeline is still told of new
  ones; after a repeated checkout or a refresh it lists them. It also needs
  that no two faults come together, and that every pipeline's value can be read:
  the unreadable value of one ends the callback for the next ones, and if that
  is the second time an event is handled, their mappings refer to the data that
  the first time left. The proof asked for it, TLC then had the counterexample;
- `ListedAreFound` and `HeadsAgree` need branches that only grow, no crash, and
  no fault but a failed fetch (`HeadsAgree`: none); `ListedAreFound` asks when
  the lock is free, as the queries do;
- `EveryMaterialPolled`, `EveryCallReturns` and `KeyHeals` need that no git
  command is stuck for good. Without a deadline a hanging one is, and with one
  it still is if a child keeps its output open: then Watch never returns, and no
  material is polled any more;
- `CliAgrees` needs a new commit with one parent that has the old one in its
  history: `git log old...new^` follows a merge's first parent only, and lists the
  old commit's own commits too;
- `ToldOnce` needs that there is no crash and no late acknowledgement: delivery
  is at least once. `PayloadsFit` needs that mapping and results are written
  without a crash or failing query between them.

## 4. Bounds

| Bound | Why it is enough |
|---|---|
| RepositoryLocker: 4 goroutines, 2 materials, 4 addresses | a lock is leased by one, waited for by another, dropped and created again by a third while a fourth works on the other material; every goroutine can hold an address, so allocation never blocks |
| GitWatcher: 2 handlers, one of them cron | any handler meets any other and itself; every race found is between two |
| 1 pipeline (2 in WatcherPoll and WatcherLive), 2 branches | a row may change its branch; two rows of one poll may differ in branch, fault and exclusion |
| `MaxCommits` 2 to 4, `HistoryCount` 2 | histories below, at and above the limit; a commit on top of one that another handler has seen; two branches that share commits |
| `FirstCommits` 1 or 2 | a root commit as last seen hash with go-git; none with the cli, where git refuses the range |
| `MaxForced` 1, `MaxFails` 1 or 2, `MaxCrashes` 1 | one fault at any place; two different ones in CheckoutHeals |
| MaterialCheckout: 2 or 3 handlers, 1 or 2 urls | an update moves the material to another directory and back; a stale writer, the poll and a third handler |
| WebhookEvents: 2 messages, 2 pipelines, `MaxCalls` 1, `MaxFaults` 1 | an event and its update, or two events without a unique id; a pipeline told and one not yet told when the fault comes; the pipelines' values are exchanged, spoilt or turned off at any place, or the material is checked out, with rows that are read before and written after a callback's queries. A checkout together with a save is covered by the proofs only |
| WebhookEvents: one configured event of the messages' type | one that a pipeline waits for, beside one of another type. Several of one type, which the loop of HandleWebhookEvent takes one after the other, are covered by the proofs only |
| WatcherLive: 3 rules, 3 paths | a commit that the last rule includes, one that the second excludes, one that both match, one that only the first matches |
| PollRounds: 2 materials, 2 workers, 1 client with 1 call, 1 fault, 2 keys | a poll of each material at once, a client that holds one's lock or writes the key between them; any content of the key file at the start stands for earlier saves, among them two at once |
| ReleaseDiff: all histories of 5 commits, every old and new commit | criss-cross merges, merges of merges, several first commits, an old commit beside, before, after or unrelated to the new one |
| `MaxErrors` 1 | LastFetchErrorCount influences nothing |

`MaxCommits` bounds pushes, as `made < MaxCommits` in the guard of `Push`; the
counters `pubs` and `told` stay at 2. Deadlock is checked in every run but
WebhookEvents, where the system rests when no message is left, ReleaseDiff,
where computeDiff returns, and PollRounds, where a stuck git command really
stops everything.

## 5. Fairness

- Critical sections end: weak fairness on the steps of a handler. A handler
  waits for git, for the database and for the message bus; the model assumes
  that these calls return. The code does not bound git commands by default
  (`CLI_CMD_TIMEOUT_GLOBAL_SECONDS` is 0). PollRounds does not assume it: a
  command may hang, only the expiry of its context, if it has one, is fair, and
  `Stuck` is a premise of its liveness properties.
- The lock is granted to a goroutine that waits: strong fairness on taking it.
  Go's `sync.Mutex` hands the lock to the first waiter after 1 ms (starvation
  mode).
- The cron job polls again and again: weak fairness on `Cron`'s call in
  GitWatcher and MaterialCheckout, whose guard is FindActive's: it is enabled
  only while the material is checked out, and a failed checkout disables it.
  PollRounds, with the same guard in `Submit`, justifies it
  (`EveryMaterialPolled`) from weak fairness of the cron entry (`Tick`,
  `@every POLL_DURATION m`), of Watch and of the pool (`Work`).
- In PollRounds nothing makes go-git's walk end; RunWithTimeout returns all the
  same.
- The bus delivers what it has, and the callback goes on: weak fairness on
  `Deliver` and on `Handle`.
- computeDiff goes on: weak fairness on its next step.
- Nothing is assumed of clients, pushes, faults or crashes.

## 6. What is proved

Every invariant and every action property that a passing run checks is a theorem
too: for every number of goroutines, materials, addresses, handlers, workers,
keys, urls, pipelines, branches, commits, messages and events, every set of faults
and every bound. The assumptions on the constants (`LockerAssumption`,
`WatcherAssumption`, `CheckoutAssumption`, `KeyAssumption`, `RoundsAssumption`,
`WebhookAssumption`, `QueriesAssumption`, `HistoriesAssumption`) say what they are.
`AbsentAssumption` and `NoneAssumption` say that "no row" is no row, which TLC's
model values give. What a theorem assumes beyond them is in its ASSUME:

| Theorems | Hypothesis | Why |
|---|---|---|
| `AnnouncedByPolls`, `RefreshesNotify` | `Ops = {"poll"}` | section 7: another handler's fetch consumes the update |
| `RefreshesNotify` | with the cli, no forced pushes and more than one first commit | git refuses `from^..branch` if `from` has no parent, and the row stays |
| `PathInvariant`, `HistoriesAreLogs`, `NoRepeats`, `HeadsAgreeAlways`, `ListedAreFoundAlways` | `"save" \notin Ops` | SavePipelineMaterial may move a row to another branch between a poll's listing and its write, without the lock |
| `StatusesTrue` | no updates and webhooks | they write a row that was read before the lock (section 3, premises) |
| `OrphansNone` | one client beside cron | two updates at once leave a directory |
| `PayloadsAlwaysFit` | all events have a `git_host_name` at the start, or none has; finitely many selectors | the migration that adds the column names all rows of a host or none (`scripts/sql/12_gitlab_webhook.up.sql`); the list counts filters |

The runs that check these properties satisfy the hypotheses.

**RepositoryLockerProofs.** `LockerInv` is inductive: the counter of an entry is
the number of goroutines that hold a pointer to it, an entry exists exactly as
long as there is one, every such pointer is the entry of the material its
goroutine asked for, and the owner of a mutex is a goroutine past its Lock. The
cardinalities are the point: a lease adds one goroutine to the set and one to
the counter, and only the last return empties both. From it follow
`TypeCorrect`, `LeasesCounted`, `MutexPerMaterial`, `LeasedLockStable` and
`ImplementsMutexSafety` (each step of the bank is a step or a stutter of
MaterialMutex).

**GitWatcherProofs.** `WatcherInvariant` proves the conjunction of `TypeOK`,
`HistoryHead` and the same for the rows in the handlers' memory (`OutHeaded`):
`HistoryHead` alone is not inductive, since a write puts a row from memory into
the table. `TypeOK` contains the lock discipline (a handler is in the critical
section exactly from its fetch to its return), which is more than types.
`AnnouncedByPolls` proves `Announced` for systems in which only polls run: a row
in a poll's memory that was not told is still in its list of messages, and rows
in the table are told or old (`ToldInv`).

**CommitFlowProofs** follows a commit from git log to the bus, in three layers.
`FlowInv`: logs count down and go on from each commit as that commit's log
(`LogOK`), one handler has the lock (`LockOK`), and what a handler is about to
announce is a head on disk (`HeadsOK`); `PublishedHeads` follows without any
hypothesis. `PathInv`, without SavePipelineMaterial: a pipeline's rows, in the
table and in memory, are of one branch (`Kept`), none of them is ahead of the refs
and those never of the remote (`Growing`), and histories are exact as long as
nothing worse than a push happened (`SteadyInv`). The heart of the last is that
the cut of `ChangesSince` put before the old history is again a cut of the log,
with both git implementations and at every limit; `HistoriesAreLogs` follows.
`NoRepeats` adds that what was announced is in the row or in the row that the
poll at work has yet to write (`CalmInv`); `RefreshesNotify` that a head that was
not announced is still to be listed or in the list (`HeardInv`), which needs that
a row's last commit has a parent if git must be asked for it (`Deep`).

**MaterialCheckoutProofs.** `CheckoutInv` is the types, one handler in the lock,
what each handler has at hand at each of its places, and that git fetch runs in a
repository that git init made. `DeletionsFinal` is an action property whose
invariant is that every copy of a deleted row that a handler may yet write is of
the deleted row (`Gone`), once it is so at rest. `StatusesTrue` rests on `SoundInv`
(all copies of the row agree on url and directory) and `Truthful` (who is about to
write "checked out" has checked out). `OrphansNone` says, for each place of the
client, which directories there are (`TidyInv`): polls may fall between any two
of its steps, and their stale rows still name the row's directory.

**PollRoundsProofs.** The inductive invariant is `TypeOK`, `OnePollEach` and
`Sound`, which ties a goroutine's locals together (idle goroutines have no
material, workers only poll, a key is read before it is used). `OnePollEach` alone
is not inductive: a worker gets a poll from the queue, and that no other worker
has the same material follows only if idle workers have none. `TypeCorrect`
contains the lock discipline. `OneInAlways` uses it: every step but a crash is a
step or a stutter of MaterialMutex, which never lets a second goroutine in.

**WebhookEventsProofs.** `EventsInv` (types, what the callback has at each place,
every mapping refers to a row) is below all. `RowsUnique` follows since the row
is looked up and written in one step of the only callback; `MappingsUnique` needs
`FoundOK`, as SavePipelineMaterial comes between lookup and write: it can only
turn mappings off. A checkout writes rows back that it read before (`CopiesOK`),
and until somebody calls SavePipelineMaterial these are the rows as they are
(`Untouched`). `MappedFirst` needs that the mapping of a round is there with
its verdict (`StoredOK`). `BuiltOnce`: a pipeline that was told of the message in
work will not be met again in this delivery (`Passed`). `PayloadsAlwaysFit`: each
mapping has one set of results that goes with it, or the callback is about to
write it (`ResultsOK`). `ToldAreShown` holds through a redelivery that writes the
mapping again: what was told is shown, or overwritten, or the callback is on its
way to write it (`Shown`, `Overwritten`, `Pending`).

**PipelineQueriesProofs.** `LastRuleDecides` proves that PathMatcher's loop is its
reference for every list of filters and paths, and `RulesHoldAlways` that messages
and lists use it alike. Both are about loops written as recursive functions: the
set of the numbers of rounds after which the claim holds has 0 and with every n
its successor, so it is `Nat` (`NatSteps`, from the well-foundedness of <).
`HeadsAgreeAlways`: GetLatestCommitForBranch has brought a row to its branch's
head, has it in hand, or has it yet to read (`BroughtInv`). `ListedAreFoundAlways`
is the deepest: a row that is not marked as errored has its history on disk, or
somebody who has the lock is about to set it, and what a poll reads to clear a
mark is on disk again (`DiskInv`, with `RemoteInv`: commits stay on the remote).
The queries refuse a material that is not checked out; `GoneInv` says that then
every row is marked, or a checkout has yet to mark it, so nothing is listed.
TLC checked these invariants too, with both git implementations.

**ReleaseDiffProofs.** `DiffInv` is inductive for every set of commits and every
acyclic history: parents of processed commits are processed, on the stack or in
the old commit's history (`LoopInv`), and everything before the start of a walk is
seen by the walk or before the commit it is at (`WalkInv`). The second is what
makes it enough to stop at merge bases: a walk cannot enter the old commit's
history elsewhere (`WalkIntoOld`). When the stack is empty, processed commits and
the old commit's history are closed under parents, and `ChangesExactAlways`
follows; `CliAgreesAlways` compares it with git log. `Ancestors` is defined as the
least closed set, so no induction is needed.

Proving changed the models in four places. `ToldIsShown` has a stronger premise
(section 3). `HistoryIsLog` and `NoRepeat` name the faults they exclude, instead
of those that the run happens not to have. The constants' assumptions above were
written down. The loop of FetchGitCommitsForBranchFixPipeline, `FilterCommits`, is
spelled out, since the library's SelectSeq is defined by a recursion that the
provers cannot look into.

Only model-checked: liveness (`WaiterServed`, `Converges`, `Heals`,
`EveryMatchTold`, `Terminates`, `EveryMaterialPolled`, `EveryCallReturns`,
`KeyHeals`), and of `ImplementsMutex` the fairness, which are beyond the proof
system.

## 7. Where the code departs from what it says

Three runs end in a counterexample to something a comment of the code says. Each
is a finding in `PROJECT.json`.

1. **WatcherLatestConsumes.** A commit is pushed; GetLatestCommitForBranch
   fetches it and resets the rows to it without a message; RefreshGitMaterial
   fetches, finds no update and succeeds. No pipeline hears of the commit,
   against "refresh repo. and notify all pipeline for changes".
2. **WatcherSaveReverted.** A poll lists the rows; SavePipelineMaterial changes
   a row's branch; the poll writes all columns of what it listed.
3. **CheckoutHealsCli.** With the git cli a checkout whose caller vanishes after
   the wipe leaves a row that is checked out and no repository. The polls never
   repair it, since `openGitRepo` of the cli reports no error for a missing
   repository; the interface says that Fetch creates one.

Seen while modelling, without a run that fails, as no line of the code promises
otherwise: UpdateRepo writes url and deletion before it takes the lock, and a
poll that runs takes both back; the comment of GetOrCreateSshPrivateKeyOnDisk
says that an existing file is left alone, and it is always written, on which
`KeyHeals` depends; with the cli GetCommitMetadataForPipelineMaterial finds
commits of other branches; an annotated tag is looked up by the hash of the tag
object with go-git, which is no commit.

## 8. What is not modelled

The lookup of tags (GetCommitInfoForTag is a poll and then one git command); the
file statistics of a release; the splitting of repository urls into ssh urls of
a git host; edits of `FilterPattern`; the expressions that GetPathRegex makes of
wildcards; materials of several providers; shutdown order (a stop is a crash).
Left out for good: the REST handlers, which repeat the gRPC ones, the delegator
of http requests, conversions of requests and rows, parsing of git's output,
credentials, metrics, logging, wiring and generated code.

## 9. Plan

In this order, most important first:

1. *(done)* MaterialMutex, RepositoryLocker and its proofs; GitWatcher and its
   runs; MaterialCheckout and its runs; the first theorems of GitWatcher.
2. *(done)* WebhookEvents, ReleaseDiff with its proofs.
3. *(done)* PollRounds with SshKeys and its proofs; PathRules; PipelineQueries and
   WebhookQueries.
4. *(done)* Proofs of all invariants and action properties of the passing runs.
5. An abstract specification of what the polls promise to a pipeline (the heads it
   follows, in order, each announced once), which GitWatcher with polls alone
   implements. The lock needs none: the handlers' modules take the actions of
   MaterialMutex themselves, and PollRoundsProofs and CommitFlowProofs prove that
   they keep to it.
6. The tag lookup of GetCommitInfoForTag, and FilterPattern as a variable.
