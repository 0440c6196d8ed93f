# headmaster: TLA+ models

headmaster runs [headscale](https://headscale.net) on Kubernetes. An operator
deploys headscale instances and, for annotated Ingresses and Services, tailnet
proxies; a SCIM service translates what an identity provider says about users
and groups into headscale's policy. This directory holds TLA+ modules of the
parts in which things happen concurrently or fail half-way, TLC configurations
that check them on small instances, and TLAPS proofs.

Paths are relative to the repository; `C/` stands for
`operator/src/controllers/`.

## Inventory

| component | state it keeps | operations | interacts with |
|---|---|---|---|
| SCIM service (`scim/src/services.rs`, `storage.rs`) | the mapping of users and groups, in memory behind a mutex and in a JSON file | POST, PUT, DELETE of users and groups; `POST /internal/reconcile` | the identity provider and the operator (HTTP), headscale (gRPC), the file |
| SCIM policy repository (`scim/src/policy.rs`) | `policy_lock` | `set_group_membership` | headscale's policy |
| policy editing (`headscale-client/src/policy.rs`) | none | `set_groups`, `copy_groups_from`, `append_grants`, pruning of grants | used by both writers of the policy |
| operator: policy sync (`C/headscale_instance/policy.rs`) | none: spec, Ingresses and the live policy are read each time | `sync_policy`, `merge_ingress_grants`, `notify_scim` | headscale's policy, the SCIM service |
| operator: HeadscaleInstance (`C/headscale_instance/reconcile.rs`, `bootstrap.rs`, `scim.rs`) | StatefulSet, Services, ConfigMap, API key and SCIM token Secrets, status | apply, apply_external, cleanup | Kubernetes, the headscale pod |
| operator: proxies (`C/proxy/`) | for each proxy a config Secret (auth key), a state Secret (`device_id`, `headscale_ref`, tailscaled's identity) and a StatefulSet | `reset_if_retargeted`, `rotate_stale_auth_key`, `ensure_auth_key`, `deregister_and_cleanup` | headscale's keys and nodes, the pod, the kubelet |
| operator: Ingresses (`C/ingress/reconcile.rs`) | a finalizer, `claimed-by`, status; the IngressClass claim | adopt, apply, release, cleanup | other deployments of the operator |
| operator: Services (`C/external_service/`) | the same, and an egress Service or a serve configuration | the same for exposed and ExternalName Services | the same |
| operator: egress DNS (`C/external_service/dns.rs`) | one key of a shared ConfigMap | `sync_egress_dns` | other deployments, CoreDNS |
| admission webhook (`operator/src/server/webhook.rs`) | none of its own; for each request a ConfigMap and a Job | validate, `run_configtest` | the API server, which waits for it; headscale's `configtest` |
| manifests (`C/headscale_instance/builders.rs`, `C/applier.rs`) | none | `build_config`, `check_reserved_keys`, `desired_statefulset`; server-side apply with an owner reference | controller and webhook |
| probes, events, discovery, chart, generators | none | | |

What is hard here:

* concurrent requests in the SCIM service: two mutexes that are never held
  together, and gRPC calls between their sections;
* two writers of headscale's policy, in different processes, each with a
  read-modify-write of its own and no common lock;
* handlers that change headscale, a file and the policy one after the other, and
  can fail, be dropped by their client or be killed after each of them: retries
  must finish what was begun;
* a pod that the operator does not control, whose registration, crash loop and
  writes to the state Secret interleave with reconciles;
* keys that are used up and expire, nodes that are deleted or refused behind the
  operator's back, recovery in stages;
* several deployments of the operator over the same Ingresses, Services,
  IngressClass and DNS ConfigMap, each with a cache of its own;
* one set of object names for every shape and mode that a parent can take, with
  fields that cannot be changed, and objects applied one call at a time;
* an admission webhook that runs a Job under a deadline, is asked about the
  operator's own patches too, and may be gone around;
* children that the garbage collector takes in its own order, and claims that it
  does not take at all.

Correctness, component by component: the live groups are those of the mapping,
and no accepted update is lost for good; a user who is deactivated or deleted
has no session left; names and ids stay unique; the policy settles; a wanted
proxy gets back on the tailnet, an unwanted one is gone together with its node;
a record of a node outlives the node; an Ingress or Service has at most one
owner and is not abandoned; its objects deliver what it declares, whatever it was
before, and are removed with it; an instance that is ready is what its spec says,
and one that is deleted leaves nothing.

## Modules

| module | what it is |
|---|---|
| `Policy` | the policy as a value: groups, grants, tag owners; pruning |
| `Scim` | the SCIM service and its properties (extends `Policy`) |
| `Directory` | the abstract directory of users and groups that `Scim` implements |
| `ScimProofs` | theorems about `Scim`, the refinement included |
| `ScimApartProofs` | theorems about `Scim` when requests are kept apart (extends `ScimProofs`) |
| `PolicySync` | the operator's policy sync composed with the SCIM service (extends `Scim`) |
| `PolicySyncProofs` | theorems about `PolicySync` |
| `Proxy` | one proxy: reconciles, pod, headscale's keys and nodes |
| `ProxyProofs` | theorems about `Proxy` |
| `Sharding` | several deployments and one parent: an Ingress, an egress Service or an exposed Service; egress DNS |
| `Lease` | the abstract lease of a parent that `Sharding` implements |
| `ShardingProofs` | theorems about `Sharding`, the refinement included |
| `DataPlane` | the Kubernetes objects of one parent through changes of shape, mode, ports and instance |
| `DataPlaneProofs` | theorems about `DataPlane` |
| `Admission` | the webhook, the configuration it tests, and the requests before it |
| `Instance` | a HeadscaleInstance: controller, pods, claims, garbage collection (extends `Admission`) |
| `InstanceProofs` | theorems about `Instance` and `Admission` |
| `PlanTheorems` | lemmas about plans, which `InstanceProofs` and `DataPlaneProofs` share |
| `MCScim`, `MCPolicySync`, `MCProxy`, `MCSharding`, `MCDataPlane`, `MCInstance` | values of the constants for TLC |

`Policy` is shared: `Scim` extends it, and `PolicySync` composes the operator
with all of `Scim`. `Proxy`, `Sharding` and `DataPlane` divide the two
controllers of parents: `Proxy` has the keys and nodes of a proxy, `DataPlane` its
objects, and both look into the one step of `Sharding` that provisions and the
two that tear down; `Sharding` puts several deployments around them. `Instance`
composes the webhook with the controller, and takes the one step of a policy sync
from `PolicySync`.

### Policy and Scim

A policy is a record of its groups, grants and tag owners. `ReplaceGroups` is
what `set_group_membership` computes from the policy it fetched; `PruneGrants`
is its loop over the grants.

A request is a value in `req[h]` for a handler slot `h`, and its progress is
`pc[h]`. A stage is what the code does between two awaits at which another
handler can run, so one action covers, for example, all of `put_group` up to the
release of the mapping lock.

| stage | code | action |
|---|---|---|
| `read` | `put_user`, `delete_user`: look-up, lock released | `ReadUser` |
| `headscale` | `expire_headscale_user_nodes`, `delete_headscale_user` | `ExpireNodes`, `DeleteAccount` |
| `commit` | `set_user`, `set_group`, `remove_...` and the flush, under the mapping lock | `CreateUser`, `PutUser`, `DeleteUser`, `CreateGroup`, `PutGroup`, `DeleteGroup` |
| `check` | `put_user`: is the user in any group? | `CheckGroups` |
| `snapshot` | `reconcile_groups_policy` up to the release of the mapping lock | `Snapshot` |
| `lock`, `fetch`, `write` | `set_group_membership` | `AcquireLock`, `FetchPolicy`, `WritePolicy` |

The mapping is a variable, the file another. `SetAndFlush` and `RemoveAndFlush`
hold the two ways in which the code treats a flush that fails: `set_*` leaves the
new record in memory, `remove_*` restores the old one; in both cases the file may
have been renamed already. `Disconnect` is a client that goes away: axum drops
the handler's future where it is, with its locks. `Crash` loads the file.
headscale is `live` (its policy) and `session` (for each node the identifier of
the user who owns it). A `Login` needs an account of the identity provider that
is not in the course of being changed.

### PolicySync

`sync_policy` as `BeginSync` (the object and the Ingresses as the controller
reads them), `GetPolicy`, `SetPolicy`, `NotifyScim`. `Desired` is the policy the
operator computes. headscale refuses policies with unresolved groups. Every
action of `Scim` is a step here, except that only `NotifyScim` posts to
`/internal/reconcile`.

### Proxy

A reconcile runs through `stage`, one stage for each call whose outcome the pod,
headscale or a user can change in the meantime. Every stage can fail (`Fail`: the
error policy requeues the parent; an operator restart looks the same). `config`
and `state` are the two Secrets, `kept` and `seen` what the reconcile has read
from them. `pod.exit` says whether the container's last exit was before or after
the creation of the current config Secret, which is how `proxy_crash_state`
judges whether the current key has been tried. `target` is the parent's
headscale-ref, or the way in which the parent has ceased to want a proxy:
`released` (deleted, another namespace or class, excluded) or `unannotated` (the
config annotation was removed). The pod, the kubelet, headscale's registration
and time are external.

### Sharding

`parent` is the object all deployments watch: whom it asks for
(`headscale-namespace`), whether it is being deleted, the finalizers, the
`claimed-by` annotation and the address (an Ingress's status, an egress
Service's `spec.externalName`). `Write` is the API server: a change gives the
object a new resourceVersion, is sent to those who watch it (`news`) and outdates
what a release has fetched (`current`); an object that is being deleted goes with
its last finalizer. `cache[d]` is the copy a deployment decides by, `at[d]` the
stage of its reconcile.

| code | definition |
|---|---|
| `ensure_ingress_class`, called once by `main` | `Claims`, `StartUp` |
| gates of both `reconcile`s, then kube's `finalizer()` | `MayAdopt`, `Dispatch`, `Reconcile`, `Adopt`, `Unfinalize` |
| the releases of `apply`, `apply_egress`, `apply_expose` | `MustRelease`, `Drop` |
| `apply`, `apply_egress`, `apply_expose` | `ApplyIngress`, `ApplyEgress`, `ApplyExpose`, then `Publish`, `Claim` |
| `release_ingress`, `release_service` | `Clear`, `Reread`, `Release` |
| both `cleanup`s | `Cleanup` |
| `sync_egress_dns`, `collect_rewrites` | `ListServices`, `ApplyRewrites`, `Rewrites` |
| the watches of both `stream`s | `Deliver`, `ChangeProxy`, `ChangeSpec`, `Woken` |
| `error_policy` | `Retry`, `Fail` |

`TearDown` follows `cleanup_proxy_resources`: a delete that fails is logged and
swallowed, and the finalizer goes all the same. What is left is in `leaked`;
the properties speak of `Kept`, the proxies that are not.

A parent is `unwanted` when an Ingress is of another class or a Service has no
config annotation. Both controllers share the actions up to the differences the
code has: only an Ingress has a status to clear, only an egress Service an
address that comes with the claim and a DNS rewrite.

### Directory

What SCIM promises of users and groups: each change is done as a whole or not at
all, a removal that cannot be saved is undone, and a restart finds a copy of some
earlier whole. Groups are known by name. `Scim` implements it under the
refinement mapping `DirectoryOf`, of memory and of the file: a stage between two
awaits of a handler is a change, an undone change, a restart or nothing.

### Lease

What deployments promise of a parent that they share, without copies, stages or
resourceVersions: one serves it only while it holds it, gives the hold up only when
it does not serve it any more, and the parent is not gone before all have. Several
may hold it, and serve it, while it changes hands. The refinement mapping, in
`ShardingProofs`, takes finalizers for holds and `Kept` for those who serve.

### DataPlane

`parent` is what the user makes of an Ingress or a Service: its shape, what
becomes of its config annotation, mode, host-network, ports, routes, consumers.
`Verdict` is the cascade of gates, in the order of the code, up to the first
call that writes; `plan` is the list of calls that follow, which `ApplyPlan` and
`ReleasePlan` put in the order of the code, and one action makes each call. A
call that fails ends the reconcile (`Fail`) and leaves the rest undone.
`objs` holds, for each object, what matters of its content: of the StatefulSet
its flavour, login URL, network, device, advertised endpoint, destination and
listeners; of the Service whether it is headless, its NodePort and its ports.

| code | definition |
|---|---|
| gates of `apply`, `apply_egress`, `apply_expose` | `Unservable`, `IngressVerdict`, `Verdict`, then `Refused`, `Served`, `Withdrawn`, `Released` |
| `collect_ingress_routes`, `collect_tcp_forwards`, the `build_*` functions | operators of the same names |
| `ensure_service_shape`, `apply_wireguard_service`, the egress Service | `Shape`, `ApplyService`, `NodePort` |
| `ensure_auth_key`, `ensure_state_secret`, `apply_proxy_rbac` | `ApplyPlain`: here only whether the object is there |
| `apply_serve_configmap`, `apply_*_statefulset`, `apply_consumer_policy` | actions of the same names |
| deletions of a former mode's objects | `DropLeftover` |
| the patch of `externalName`, `sync_egress_dns` | `Publish`, `sync_egress_dns` |
| `cleanup_proxy_resources`, `release_ingress`, `release_service` | the same, `Release` |

Adoption is one step with the gates: what can happen between them is in
`Sharding`. A Service's `clusterIP` is what the API server keeps of it: a patch
that names none leaves it.

### Admission and Instance

`review[r]` is the one request of the user and the one of the operator that may
be before the webhook; `Submit`, `CreateMap`, `CreateJob`, `Await`, `Clean` are
the stages of `validate` and `run_configtest`, `Abandon` the API server that gives
up after `timeoutSeconds`, or the operator that stops. A configuration is a
function from keys to whose value it is, over a few keys that stand for their
kinds: pinned at the top level, pinned under `dns`, defaulted, free.

`Instance` has the instance with its generation, finalizer and Ready condition,
its objects, the pod with the configuration and the hash it was started with, the
two claims, and the reconcile as a plan of calls like that of `DataPlane`. The
finalizer is a patch that goes through the webhook both ways (`Adopt`,
`AskToUnfinalize`, `Finalize`). `Stored`, `StartPod`, `RollPod`, `Collect` and the
like are Kubernetes: a StatefulSet replaces a pod of another template only once
it is ready, a pod mounts the ConfigMap as it is when it starts, objects with an
owner reference go in any order when the owner is gone, and a claim that is being
deleted goes when no pod uses it. Going around the webhook is `Bypass`.

## Runs

| run | bounds | what it shows |
|---|---|---|
| `scim_seq` | 1 user, 1 group, 2 group names, email keys, expiry on change, 1 node, 1 handler, 5 requests, 2 faults | `AnswersCurrent`: a request that is answered with success has brought the policy in line, whatever failed before. `UsersStayGone`, `NoDanglingMember`: no failure or restart brings a deleted user back, into a group in particular. `NodesExpiredFirst`: no deactivation or deletion is stored before the nodes are gone. `GroupFreeGrantsKept`: pruning touches nothing else. `TypeOK`: with it, that users without identifier are never listed |
| `scim_conc` | 1 user, 2 groups, 2 handlers (symmetric), 3 requests, reconciles at will, 1 fault | what the locks give: `NoLostUpdate`, `GrantsResolve`, `GroupNamesUnique`, `GroupsStayGone`; `ImplementsDirectory`: the refinement |
| `scim_live` | the same with 1 group | `RequestsFinish`; `SyncsHeal`: recurring reconciles remove what stale snapshots and faults left |
| `policy_sync` | 1 user, 1 group, 1 handler, 3 requests (no renames), 3 inline policies, 2 edits, 1 fault | `PolicySettles`: the policy comes to what the spec and the Ingresses ask for, and stays. `GroupsHeal`: groups that one writer takes from the other come back; not those of an instance whose policy was removed and then declared again in conflict with SCIM, for the operator writes nothing any more and so notifies nobody. `SyncTypeOK` |
| `proxy` | 2 instances, 2 keys, 3 node ids, 1 edit, 1 fault | `Recovers`, `Releases`, `RecordOutlivesNode` |
| `sharding` | 2 deployments, each kind of parent, no forced claim, both with egress DNS, 1 edit, 1 fault | `HandsOver`, `LetsGo`: wherever an edit, a failure or a crash hits, the parent ends up with its owner alone, or with nobody. `FinalizerOutlivesProxy`: no concurrent write costs a deployment its finalizer while it has a proxy. `OneDefault`: one default deployment. `ShardingTypeOK`: with it, that whoever provisions has adopted |
| `data_plane` | 13 parents of all shapes and modes, the 4 things an instance can be, 3 edits, 1 fault | `Settles`: whatever a parent was before, its objects end up delivering what it declares now. `TearsDown`, `NothingUnowned`: what is given up leaves nothing but what a failed delete kept. `StartsEquipped`, `PublishedGuarded`: the order of the calls. `DataPlaneTypeOK`: with it, that no proxy on the host's network has a TUN device |
| `instance` | 6 specs, managed and external, that fit and that do not, 3 requests of the user, 1 fault | `Converges`, `ScimLeavesNothing`, `Vanishes`: what an instance comes to. `ReadyHonest`: what Ready means for the generation it observes. `GuardsHold`: pinned keys stay, and only tested configurations run. `KeysAccounted`, `LitterAccounted`: what interruptions cost. `ScimEquipped`, `InstanceTypeOK`: the order of calls, and that only an adopted instance is worked on |
| `scim_stale`, `proxy_unannotated`, `sharding_dns`, `data_plane_flip` | as above, some smaller | disagreements between the code and its documentation, below |

Why the bounds are enough: every conflict of the SCIM service is between two
handlers, over one name or one id (two groups for names, one user because users
meet only in a group's members), and three requests suffice for create, change
and remove in any overlap; five in sequence suffice for a user and a group to be
created, for a change to fail and be retried, and for a removal. The seeded
policy has a grant for each shape that pruning distinguishes. For a proxy, one
edit is a retarget or a release at any moment, one fault is any of the events
listed at `MaxFaults`; ids that nothing refers to are reused, so that the few ids
do not end the behaviour. Two deployments are a former and a new owner, or a
default and a named one; the parent may exist at the start, so that one edit is a
creation, a hand-over, a deletion or an exclusion at any moment of the adoption
before it, and one fault lets any step of any of them be lost. For an Ingress
alone and for an egress Service alone the same properties hold with two edits and
no fault. In `data_plane` three edits are two changes of shape and one of the
instance, or a change, a removal and what comes after, begun from nothing; every
pair of shapes occurs, and the parents carry the cases that the builders tell
apart: UDP beside TCP, a target port, a renumbered port, a named backend, two
routes of one path. In `instance` three requests are enough to make an instance,
change it and delete it, or to change it and take the change back; a name is used
again only when all that bore it is gone (`Vacant`, see the disagreements). Its
fault is an outage, which fails one call or two in a row. In `policy_sync` two
edits take a declared policy away and bring another, before, between or after the
steps of a reconcile; renames, which `scim_seq` and `scim_conc` have, would add to
what the mapping goes through and not to what the two writers do with it. Deadlock
is not checked: clients, users and faults may all stop, and then the system rightly
waits.

Next to definitions that matter the modules keep a variant (for instance
`PruneSources` before `PruneGrants`): the same definition with a plausible slip.
Replacing a definition by its variant makes the run of the property concerned
fail, which shows that the property watches that piece of code.

### Fairness

* `Scim`: `HandlersRun` says that a handler that can go on does (tokio's
  scheduler; calls return an answer or an error), and that waiters of the
  policy mutex are served in turn (`SF`: tokio's mutex is first come, first
  served). Nothing obliges a client to send requests. `SyncsRecur`, used only by
  `SyncsHeal`, adds that reconcile requests keep arriving and find a handler.
* `PolicySync`: a HeadscaleInstance is reconciled again after 60 seconds (30
  after an error), so `BeginSync` is weakly fair. The notification is strongly
  fair: the server accepts it as soon as a slot is free, of which the model has
  few and the server many.
* `Proxy`: what is queued is reconciled, the kubelet creates, starts and removes
  pods, keys that cannot be used expire, windows elapse. A crash-looping
  container restarts in the middle of a reconcile only as a fault, since its
  backoff grows to five minutes and a reconcile takes seconds.

* `DataPlane`: a reconcile that is queued or under way goes on. Whoever edits
  need not, and nothing tells of a change of a backend.
* `Instance`: the controller goes on, for every reconcile of an instance ends in
  a requeue; the webhook goes on with each request, and the API server takes its
  answers; each part of the cluster does what is due, separately.
* `Sharding`: a deployment that is down is started again, watches deliver what
  has changed, and a reconcile that is queued or under way goes on: the proxy's
  instance is ready and the configuration valid. Nothing obliges users to edit,
  so `HandsOver` and `LetsGo` speak of behaviours in which the owner stops
  changing.

### Disagreements found

1. `scim_stale`: snapshots can be written in the wrong order
   (`scim/src/services.rs:497-534`). Two requests that overlap both succeed and
   the policy shows the older mapping until the next request or reconcile.
2. `proxy_unannotated`: removing the config annotation of a Service never
   deregisters its node (`C/external_service/reconcile.rs:264-279`): the branch
   is entered when the annotation is absent, and looks into it for the ref.
3. `sharding_dns`: the release of an egress Service for another deployment or
   for an excluded namespace (`C/external_service/reconcile.rs:280-295`,
   `408-432`) does not regenerate the CoreDNS override, which goes on leading to
   the deleted proxy. An excluded namespace is not looked at by
   `collect_rewrites` either.
4. `data_plane_flip`: an exposed Service on the host network that turns into an
   egress keeps its headless Service: `apply_egress` never asks for its shape
   (`C/external_service/reconcile.rs:508-529`, `C/proxy/resources.rs:97-119`), and
   no port is forwarded.

Others that modelling brought up, without a run of their own:

* a POST for an existing `userName` changes the identifier without expiring
  nodes (`scim/src/services.rs:145-163`), against `scim/README.md:32`;
* the operator can overwrite groups that SCIM has just written
  (`C/headscale_instance/policy.rs:39-110`), against its comment at 26-29;
  `policy_sync` shows that they heal, unless the notification fails;
* teardown can miss a registration that comes after its read of the state Secret
  (`C/proxy/support.rs:23-113`), and leaves a node behind;
* a proxy can serve without a record of its node, for teardown to miss later: a
  retarget and a rotation delete the state Secret (`C/proxy/support.rs:159-160`,
  `C/proxy/auth_key.rs:141-142`, `158-159`) after they have decided to, and the pod
  can join in between; a pod of the former instance that writes its id into the new
  Secret brings such a rotation about, so that one retarget is enough;
* a pod that starts between the ConfigMap and the StatefulSet of a changed
  configuration runs it under the old hash; if the change is taken back it is
  never replaced, and the instance is Ready (`C/headscale_instance/reconcile.rs:421-446`);
* Ready can rest on the pod of the former configuration, while the StatefulSet
  rolls (`reconcile.rs:141-146`);
* the webhook is asked about the removal of the finalizer: an instance whose spec
  it would deny, since it was gone around or headscale was upgraded, is not deleted;
* a claim that `cleanup` deletes can be made anew by the StatefulSet, which goes
  later (`reconcile.rs:354-368`), and an instance that is created again at once
  can meet the old StatefulSet on a claim that is going, and keep an API key that
  the new database does not know;
* an instance that turns from managed to external keeps its children, although
  `reconcile.rs:224-225` says that none exist;
* the children of a proxy are owned by the instance (`C/applier.rs:97-120`): the
  deletion of an external instance takes the state Secrets, and the nodes stay
  with the external server;
* between the egress Service and its StatefulSet a change of the ports leads a
  port to another's backend; of two paths under two hosts the later wins, for
  serve.json has one host; backends that are named and missing beside others that
  are not are never looked for again (`C/ingress/serve.rs:48-73`).

Two more of `Sharding`. `operator/src/context.rs:42-43` says that a second
deployment with `claim_default` "fails at startup"; with `CLAIM_DEFAULT` unset
it starts without the claim, and one that forces the claim leaves the former
holder with it until its restart. And a parent that is taken from a deployment
and given back before the deployment has seen its own release, by annotation or
by `watchedNamespaces`, is provisioned with a proxy that has no finalizer; if
the parent is then deleted or taken away again, nothing removes that proxy. It
takes three edits, where the run has one, so `LetsGo` and `HandsOver` do not
hold for any number of edits; the theorems `LetGoAtRest`, `ServedAtRest` and
`LeaseImplemented` name what has to be excluded.

## Proofs

`ScimProofs` proves, for all values of the constants that satisfy
`PrincipalsAreDistinct` and `ScimConstants`:

* `TypeCorrect`: `Spec => []TypeOK`;
* `PolicyUpdatesNotLost`: `Spec => []NoLostUpdate`. The invariant is
  strengthened by the relation between the lock and the stages (only the holder
  of `policy_lock` is at `fetch` or `write`, and whoever is there holds it): a
  handler at `write` has read what is live, because only the holder writes;
* `GrantsAlwaysResolve`: `Spec => []GrantsResolve`. Inductive with types, from a
  lemma about `ReplaceGroups`: whatever the groups and whatever the policy, the
  result resolves. Stale snapshots do not matter;
* `GroupNamesAlwaysUnique`: `Spec => []GroupNamesUnique`. Memory and file are
  strengthened together, as a restart replaces one by the other, and a failed
  flush leaves either in the file.
* `GroupFreeGrantsAlwaysKept`: `Spec => GroupFreeGrantsKept`, and
  `GroupsNeverReturn`: `Spec => GroupsStayGone`, both from types: `put_group` finds
  the group gone under the lock it writes under, an upsert takes a fresh id, and
  ids that were given out stay so;
* `LockNeverLeaked`: `policy_lock` belongs to `h` exactly when `h` is at one of the
  stages that hold it, whether handlers finish, fail, are dropped or are killed. It
  is the safety part of `RequestsFinish`;
* `DirectoryImplemented`: `Spec => ImplementsDirectory`. Lemmas show what each
  change of the mapping is in the directory (`SetUserShown`, `RemoveGroupShown`
  and so on) and that every step of a handler is one of them (`Effects`);
  the uniqueness of group names, in memory and on disk, is what makes groups
  known by their names.

`ScimApartProofs` proves what holds of `Scim` only as long as requests are kept
apart. `put_user` and `delete_user` look the user up, release the mapping lock,
call headscale, and commit without a second look, so two of them on one user can
undo each other. The premises say no more than each theorem needs:

* `UsersNeverReturn`: `Spec /\ []UsersApart => UsersStayGone`, and
  `NoMemberDangles`: `Spec /\ []UsersApart => NoDanglingMember`, for any number of
  handlers of which no two work on one user. What a handler has looked up is still
  there when it commits (`Found`), and an id that was given out and is not taken is
  in no group, of memory or file (`Unlisted`);
* `RevokedNodesExpired`: the same premise and `IdentifiersUnique` (no two users
  with one identifier) imply `NodesExpiredFirst`: between the expiry and the commit
  no node of the user comes back (`Wiped`);
* `AnswersCurrentWhenGiven`: with any number of handlers, and whatever has failed,
  been dropped or crashed before, the answer "ok" is given only when the live groups
  are those of the mapping. The premise is `[][NotOvertaken]_vars`: nobody changes
  the mapping's groups while a request is between its snapshot and its write. Then
  what a request has resolved is what the mapping says for as long as it has it
  (`Prepared`). Together with `RequestsFinish` it is the safety part of `SyncsHeal`;
* `QuietPolicyCurrent`: under that premise, without faults and with a headscale
  that starts without groups, the live groups are those of the mapping whenever all
  requests are answered: they are, or some request has yet to bring them in line
  (`Followed`). It says of the disagreement that `scim_stale` shows that nothing but
  overtaking leads to it;
* `AnswersAlwaysCurrent`: `Spec => []AnswersCurrent` for one request at a time
  (`Sequential`), which cannot overtake itself (`OneAtATime`), and after which
  nothing changes before the next one.

`PolicySyncProofs` proves about both writers together:

* `SyncTypeCorrect`: `SyncSpec => []SyncTypeOK`; `SyncedGrantsResolve`:
  `SyncSpec => []GrantsResolve`; `SyncedDirectoryImplemented`:
  `SyncSpec => ImplementsDirectory`. Each step of the composition is one of `Scim`
  or leaves the mapping and its file alone (`SyncSteps`), so the lemmas about
  `Scim` carry over; the operator's writes prune like the service's;
* `WritersAgree`: in a settled policy whose groups are those of the mapping, neither
  writer finds anything to change, so they do not write against each other for
  ever. It takes a declared policy: without one the operator writes the empty one;
* `SyncLeavesSettled`: a reconcile that nothing has disturbed since it read spec and
  Ingresses leaves a `Settled` policy, whatever SCIM wrote in between. It is the
  safety part of `PolicySettles`;
* `HealedAtRest`: as long as nothing has failed, the live groups are those of the
  mapping whenever both writers are at rest; for any number of handlers of which none
  overtakes another (`NotOvertaken`, as above), and a headscale that starts without
  groups. It is the safety part of `GroupsHeal`. The invariant (`Healing`) says who still is to put the groups
  right: a request that has resolved them, a notification, or the operator's write
  that comes before it. The attempt at this proof brought up the exception of
  `GroupsHeal` (see `policy_sync`), which one edit does not show.

`ShardingProofs` proves, for all values of the constants that satisfy
`ShardingConstants` and `NoneIsNoParent`:

* `ShardingTypes`: `ShardingSpec => []ShardingTypeOK`, which includes that a
  reconcile past adoption works on a copy with the deployment's finalizer;
* `FinalizersOutliveProxies`: `ShardingSpec => FinalizerOutlivesProxy`. Two
  facts are needed that types do not give, and the three are inductive together
  (`ShardingInv`): what a release has fetched is what is there as long as its
  resourceVersion is current (`Fetched`), and the stages that remove a finalizer
  are reached only after the proxy is gone or has leaked (`Torn`). Every other
  write of the parent keeps its finalizers;
* `OneDefaultHolder`: `ShardingSpec => []OneDefault` if no deployment forces the
  claim, because whoever holds `claim_default` is named by the annotation
  (`Held`);
* `LetGoAtRest` and `ServedAtRest`: when every deployment runs and has nothing left
  to do, a parent without owner is let go, and one with a single owner is served by
  it alone, the DNS rewrite included. They are the safety parts of `LetsGo` and
  `HandsOver`. To `ShardingInv` the invariant (`RestInv`) adds that what a
  deployment has made for the parent hangs on its finalizer or has leaked
  (`Anchored`), and that a deployment whose copy is old, or whose work is not that
  of its copy, is going to look again (`Attentive`). The premise is
  `[][OwnsWhatItReads]_vars`: no reconcile starts from a copy that shows a finalizer
  which the deployment has removed since. Without it both are false, with one
  deployment and no fault, but not before three edits (see the disagreements);
* `LeaseImplemented`: under the same premise `Sharding` implements `Lease`. A step
  writes the finalizers, makes or removes a proxy, or does neither: `Anchored` gives
  that who makes one holds the parent, `Torn` that who gives a hold up serves it no
  more, and `Fetched` that a release, which writes the whole list of finalizers,
  takes no other's. `Lease` is not checked by a run, for its premise cannot be put
  into one.

`InstanceProofs` proves, for all values of the constants that satisfy
`AdmissionConstants`, `InstanceConstants` and `NoneIsNothing`, so for any set of
specs and policies and any number of requests and faults:

* `InstanceTypes`: `Spec => []InstanceTypeOK`. Types alone are not inductive
  (`Typed`): a generation is bounded by the requests there have been, the one
  before the webhook included (`Counted`), a plan has the copy it was made for,
  and a pod its volume (`Backed`);
* `LitterAlwaysAccounted`: `Spec => []LitterAccounted`, from types;
* `ReadyIsHonest`: `Spec => []ReadyHonest`, and `ScimIsEquipped`:
  `Spec => ScimEquipped`. Both are about what a reconcile that takes many calls
  has done so far. The invariant (`Reconciling`) says so: every call has a rank,
  a plan is in the order of ranks, and its calls are those of the copy it began
  with (`Orderly`); what is not ahead any more is made, as the copy says, and
  stays so while webhook, user and cluster go on (`Made`); a copy is not newer than
  the instance, and the same if it is of its generation (`Attached`); no condition
  is about a generation that was not begun (`Reported`); a pod keeps its volume
  from going (`Mounted`); and whatever Ready claims of the present generation
  holds, not only when it is written (`Honest`): a later reconcile of that
  generation repeats what is there, and one of another spec has another generation;
* `KeysAlwaysAccounted`: `Spec => []KeysAccounted`. A key may be minted only while
  the Secret is missing and no save is pending, and then one more life or fault
  than keys has been counted (`Unspent`); the operator's own request is
  before the webhook only while a reconcile waits for its finalizer (`Asked`);
* `GuardsAlwaysHold`: `Spec => []GuardsHold`. Strengthened by what each stage
  of the webhook knows of the spec (`Vetted`) and by the spec of the instance, of the
  reconcile's copy and of the ConfigMap (`Guarded`);
* `ReadyWithoutScim`: where Ready is reported for a spec without SCIM, nothing of
  the service is left and its volume is going, and `ReadyPodIsOfSpec`: a pod that
  the StatefulSet does not replace any more runs what the spec says, unless it was
  started between the two calls of a change of the configuration (see the
  disagreements). They are the safety parts of `ScimLeavesNothing` and `Converges`. Besides
  `Reconciling` they need what the plan under way has achieved: the StatefulSet of
  the copy's configuration, and a SCIM volume that goes after what would bind it
  again (`Carried`); and that it is so where Ready is reported (`Concluded`);
* `GoneStaysGone`: while no instance exists, what the former one has left only gets
  less, and once all of it is gone nothing returns, no pod either, before the name is
  used again. From types: without an instance no reconcile is under way, and without
  a StatefulSet no pod is started. It is the safety part of `Vanishes`.

`ProxyProofs` proves, for all values of the constants that satisfy
`ProxyConstants` and `NoneIsNoObject`:

* `ProxyTypes`: `Spec => []ProxyTypeOK`. Strengthened by what a stage has
  (`Staged`): a reconcile that provisions works for an instance, one that deletes
  a node has read its id, one that saves a key has minted it;
* `RecordAlwaysOutlivesNode`: `Spec => RecordOutlivesNode`. Only a retarget and a
  teardown delete the state Secret, and between the deletion of the node and
  theirs the node whose id they have read is gone (`Deregistered`): it stays gone,
  whatever pods and headscale do, while something still refers to its id
  (`GoneStays`), for ids are not given out twice;
* `ReleasedAtRest`: when the operator has done all that it has been told of, a
  parent that wants no proxy is released, and if no call has failed none of its
  objects is left; `ProvidedAtRest`: one that wants a proxy has the finalizer, both
  Secrets, the state Secret for the instance it refers to and a StatefulSet that
  logs in there. They are the safety part of `Releases` and the operator's part of
  `Recovers`. The invariant (`Resting`) says that a change which a running
  reconcile has not seen is queued (`Heeds`), what that reconcile is for
  (`Purposeful`), and what its stages have made or removed so far (`Furnished`,
  `Stripped`).

`DataPlaneProofs` proves, for all values of the constants that satisfy
`DataPlaneConstants` and its `NoneIsNoObject`, so for any parents and any number
of edits and faults:

* `DataPlaneTypes`: `Spec => []DataPlaneTypeOK`; `AlwaysStartsEquipped`:
  `Spec => StartsEquipped`; `AlwaysPublishedGuarded`: `Spec => PublishedGuarded`.
  The three need one invariant (`Making`). Types alone are not inductive: that a
  StatefulSet advertises a node port, and that it has none on the host's network,
  rests on the Service that the same reconcile has applied before. So the
  invariant has the order of the calls (`Ordered`: what never comes after what),
  that only the copy of a spec is provided for (`Aimed`), what was read of its
  routes (`Read`), and that what the StatefulSet needs is either still ahead or
  there (`Equipped`), like the NetworkPolicy before the publication (`Shielded`);
* `AlwaysOwned`: `Spec => []NothingUnowned`. A plan that releases has torn down
  before, and then only failed deletes, each counted as a fault, have left
  something (`Torn`); a reconcile that releases makes nothing (`Leaving`), and one
  that goes on without a finalizer has only the DNS left to do (`Owned`);
* `QuietAsDeclared`: `Spec => [](Quiet => AsDeclared)`, and `QuietNothingLeft`:
  `Spec => [](Quiet => NothingLeft)`: when nobody is due to come back to the parent,
  its objects deliver what it declares, and of one that is gone or unwanted nothing
  is left but what failed deletes kept. They are the safety parts of `Settles` and
  `TearsDown`. Unless a reconcile is due, the one that
  serves the parent has read it as it is (`Current`), and each of its objects is
  right or its call ahead (`OnCourse`, with it `Following`); that no call puts wrong
  what another made right needs that the ports of a Service do not collide. One that
  gives up has torn down or is going to, and a deleted parent has the finalizer that
  its reconcile is about to remove (`Clearing`, `HeldBack`).

Every invariant and every action property that a passing run checks is stated by a
theorem, some with a premise on the environment that the code does not enforce and
that the run's bounds imply. Liveness is out of the prover's reach and stays with
TLC: `RequestsFinish`, `SyncsHeal`, `PolicySettles`, `GroupsHeal`, `Recovers`,
`Releases`, `HandsOver`, `LetsGo`, `Settles`, `TearsDown`, `Converges`,
`ScimLeavesNothing`, `Vanishes`. Each says that work ends, and that what it leaves
when it ends is right and stays so; the second half is safety, and the theorems above
prove it, for `Recovers` only as far as the operator's part goes: the pod's is to
try again.

## Not modelled

Lists and gets, discovery, authentication, probes and events keep no state. Of the
manifests only what the modules name is kept: images, probes, labels, resource
requests, container security and sysctls are data without a reader here; the chart
and the generators are data conversion. HuJSON text (comments, order, syntax
errors) is abstracted to the value it denotes; an unparsable policy makes both
writers stop with an error. `Proxy` and `DataPlane` have no ACL tags and no
ephemeral keys (tun mode), whose orphans headscale collects itself; an egress's
`WaitingForUser` is a requeue like others. `Sharding` has one parent of a fixed
kind and valid configuration; forced claims are left out of the runs. Several
Services under one DNS key, duplicate tailnet FQDNs, `INGRESS_ENABLED` and
namespaces that are being deleted are left out. `Instance` has one instance: the
statuses of Ingresses that `cleanup` clears, the policy beyond the instance's own,
the configtest Job's TTL, and objects deleted by hand are left out.

## Open

* Several parents: Services under one DNS key, and the Ingresses that an instance's
  policy and cleanup look at.
* ACL tags and ephemeral keys of a proxy.
* The policy that both writers maintain as one abstract specification: `WritersAgree`
  and `HealedAtRest` say what they agree on, not by which steps they may come to it.
