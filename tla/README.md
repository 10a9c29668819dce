# Verification of the OpenSDS/OceanStor Storage Replication Adapter

VMware Site Recovery Manager (SRM) starts this Storage Replication Adapter
(SRA) as a process, hands it one XML command, and reads one XML response. The
SRA turns the command into REST calls on a pair of arrays (OceanStor, or
FusionStorage) that replicate LUNs and file systems to each other. The modules
here model what such a command does to the arrays, call by call, what SRM
believes afterwards, and the transport the calls go through.

Paths below are relative to `src/source/`.

## 1. Inventory

### Components

| component | code | state | operations |
|---|---|---|---|
| command process | `sra/sra.cpp`, `SraBasic` (`sra/sra_basic.cpp`) | none beyond the process: locals and members | read input, dispatch, login, check arrays, handle devices, write response, exit |
| failover | `sra/failover.cpp` | function-scope locals of the device loop | map, suspend, grant write access, map or share again |
| reverseReplication | `sra/reverse_replication.cpp` | as above | exchange the roles of a pair, lock the new secondary |
| restoreReplication | `sra/restore.cpp` | as above, plus a status list over all devices | lock the secondary, synchronize |
| syncOnce | `sra/sync_once.cpp` | as above | start a synchronization |
| testFailoverStart/Stop | `sra/test_failover_start.cpp`, `sra/test_failover_stop.cpp` | as above | make, map, share, unmap, delete a snapshot or clone |
| prepareFailover, prepareReverseReplication | `sra/prepare_*.cpp` | as above | HyperMetro, groups and 3DC layouts before the command proper |
| consistency groups, vStore pairs, HyperMetro, 3DC | in every command, `sra/ThreeDCLun.cpp` | as above | the group variants of split, swap, lock, synchronize |
| host mapping | `SraBasic::_add_map` and what it calls | on the array: initiators, hosts, host groups, LUN groups, mapping views | find or make each object, associate them |
| querySyncStatus, discover*, query* | `sra/query_*.cpp`, `sra/discover_*.cpp` | none | read only |
| REST adapter | `CmdAdapter/CmdRESTAdapter.cpp`, `RESTConn.cpp`, `RESTPackage.cpp` | session cache by address, curl handles | one method per request, each walking the management addresses |
| FusionStorage adapter | `CmdAdapter/CmdRESTFusionStorage.cpp` | as the REST adapter | the same requests, another order of mapping |
| command facade | `CmdAdapter/CmdOperate.cpp`, `CmdAdapter.cpp` | the adapter selected | forwards |
| TLV / OM connection | `TlvCom/` | a socket | not reached in REST mode, the only mode `main` sets |
| log, XML, CLI parser | `common/` | files, trees | conversions, log rotation |
| **the arrays** (external) | used through `CRESTCmd::CMD_*` | replication pairs, mappings, shares | execute requests; change pair states by themselves |
| **SRM** (external) | the caller | the recovery plan | starts a command, latches its report, reruns |

### How they interact

SRM starts one process per command and waits for it. The process keeps nothing:
all that a killed run leaves behind is on the arrays. Every handler is a
sequence of REST calls over the devices of the command, one device after the
other; every call walks the management addresses of its array
(`for (iter = lstArrayIP.begin() ...) { doRequest; if (failed) continue; }`) and
repeats the request there after a transport error. The arrays meanwhile
complete synchronizations, lose and regain the link, and start periodic ones.

### What is hard here

* **crashes and reruns**: a process dies (or SRM times out) between any two
  calls; the rerun must finish from whatever is on the array, and it decides
  from a *show* what was already done;
* **repeated requests**: a lost answer makes the same request arrive twice, and
  a failed one may have been executed. Split, access and synchronize bear it,
  *exchange the roles* and *add a share* do not;
* **sessions**: a login is remembered with its outcome and renewed by its age
  alone, while the array may forget the session at any moment;
* **lists in pages**: a page may be lost half way, and the loop over the pages is
  inside the loop over the addresses, or around it;
* **stale reads**: the rows of a show are used several calls later, while the
  array moves on; locals declared outside the device loop (`lst_pair_status`,
  `strNFSID`, `master_id`, `status`) carry one device's answer to the next;
* **false success**: FusionStorage's `fullRestPkg` keeps `RETURN_OK` when the array
  refuses a request with an error whose code is no string, and a login answered with
  neither error nor data is the OK of every request that follows it;
* **partial failure**: results that are dropped (`CMD_addnfs`, `CMD_synchymirror`
  in restore), failures that leave neither `<Success>` nor `<Error>`, a `return`
  out of the device loop, the sibling groups of a group changed one by one;
* **liveness**: a plan is stuck when a rerun cannot get over what a dead run left.

There are no threads in the paths modelled: the interleavings are those of the
process with the arrays, with failures, and with the processes that come after.

`PROJECT.json` lists every hazard at its line with the properties aimed at it.

### What makes each component correct

* *failover*: write access is granted only over a suspended pair; a promoted
  device is writable and mapped (shared) at the new production site, and remains
  so; it ends from any state earlier runs left; devices do not disturb each other.
* *reverseReplication*: roles are exchanged exactly once however often it is
  retried; production stays writable; the demoted side becomes read-only.
* *restoreReplication*: a device is locked before it is overwritten, and is
  judged by its own pair.
* *syncOnce*: never synchronizes over a writable secondary, nor from the wrong side.
* *the whole*: what SRM is told is true when it is told (`RecoveryPlan`).
* *host mapping*: a run that answers OK has mapped, to the hosts of the device's
  access groups and to no others; reruns converge whatever was left half made.
* *testFailover*: what SRM is told of is an active snapshot of the device, seen by
  its hosts; stop undoes start from any intermediate state.
* *groups, vStore pairs, HyperMetro, 3DC*: the same as for devices, and the sibling
  groups follow their group; a HyperMetro unit that is failed over can be written
  where production runs, and nowhere else when isolation was asked for.
* *transport*: a change reported done was executed, by no more requests than there
  are addresses; a show that reports success has read every object once; every call
  ends (what the code breaks of this is named with each property); a session that was
  lost, or a login that was refused, is not used for ever.

## 2. Modules

Four stacks, one for each part of the arrays' state that the commands work on,
and a fifth for the transport under them. Upwards is EXTENDS.

```
1  devices and their pairs
ReplicationPair          the arrays: pairs, mappings, shares; CMD_* requests
   ^
SraCommand               one SRA process; SRM's protocol; crash, response
   ^      ^      ^      ^
FailOver  ReverseReplication  RestoreReplication  SyncOnce     one per command
   ^      ^      ^      ^
RecoveryWorkflow  ---- INSTANCE ---->  RecoveryPlan   (the contract)
   ^                                        ^
RecoverySafety <- RecoverySafety_proofs     |
   ^                                        |
MCRecovery                                  |
                                            |
2  groups and HyperMetro                    |
GroupArray               units: groups, vStore pairs, HyperMetro; CMD_* requests
   ^                                        |
GroupCommand             one SRA process; SRM with the preparing phases
   ^                                        |
GroupFailOver            prepareFailover, failover
   ^           ^                            |
GroupReverse  GroupRestore                  |
   ^           ^                            |
GroupRecovery ---- INSTANCE ----------------+
   ^
GroupSafety <- GroupSafety_proofs
   ^
MCGroups

3  hosts: mapping, test failover on snapshots
HostMapping              one array: hosts, groups, views, snapshots
   ^
HostCommand              one SRA process on it; SRM; crash, response; CMD_showmap
   ^      ^          ^
   |    AddMap   TestFailoverStop
   |      ^          ^
   |  TestFailoverStart
   ^      ^          ^
TestFailover
   ^
TestSafety <- MCTestFailover
   ^
TestFailover_proofs

4  test failover on writable clones
CloneArray               clones, shares and mappings; snapshots of FusionStorage
   ^
CloneCommand             one SRA process; SRM; what both kinds of device share
   ^      ^
FileSystemTest  FusionTest
   ^      ^
CloneTest <- MCCloneTest
   ^
CloneSafety <- CloneTest_proofs

5  the transport
RestProfile              the ways a CMD_* function sends its requests
   ^          ^          ^
RestCall   ArrayCalls  FusionCalls          every CMD_* function, as such a way
   ^          :          :
Transport     : INSTANCE :
   ^          :          :
MCTransport, Transport_proofs
```

Stack 5 is what the others take for granted of a single call: `Deliveries` of
`ReplicationPair`, and its like in the other arrays, say that a call which succeeds
has reached the array at least once and at most once for each address, and that one
that fails may have. `DeliveredAsReported` is that statement about the code, and it
has two exceptions:

* *FusionStorage's calls through `fullRestPkg`* (`CmdRESTFusionStorage.cpp:2436-2469`).
  `iRet` stays `RETURN_OK` when the array refuses with an `error.code` that is no string,
  and `operateHostMapping`, `CMD_dellun` and `CMD_cloneSnap2Lun` return it. The stacks do
  not take these calls for honest: `FalseOk` in `FailOver` and `FullRestPkg` in
  `CloneArray` give them a third outcome, an OK for a request that did nothing, and the
  history variable `misled` keeps for which device (and site) the last command got one.
* *An OceanStor login answered with errorCode 0 and no data* (`RESTConn.cpp:169`,
  `:486-491`). `RestCall` has it (the outcome `hollow`); stacks 1 to 4 assume that it does
  not happen, an assumption on the array which the code does not make safe: after such a
  login no result at that address means anything.

**ReplicationPair.** `pair[p]` is the remote replication pair of a device (or a
sibling pair of the same LUN in a 3DC layout): `status` (`_convert_pair_status`),
`primary` (which site replicates), `access` (write access of the secondary,
which `CMD_changeSlaveLunRw/FsRw` sets). `mapped` and `shared` say at which site
a LUN is mapped and a file system shared. A request is an operator with the reply
it will give: `Deliveries(reply)` says how often it then reached the array, 1 to
`Addresses` times when it succeeded, 0 to `Addresses` when it failed. The arrays'
side is external: it is what the code counts on, permissive (no precondition the
SRA should check is enforced), with these assumptions: a second `switch`
exchanges the roles back; `sync` is refused over a broken link; an array does
not resume by itself over a writable secondary; an error answer of an OceanStor array
carries its code. `misled` holds the devices and sites where the last `_add_map` on
FusionStorage was told OK for a mapping the array had refused.

**SraCommand.** `cmd, todo, pc, cur, local, report` are one process: the command,
the devices not yet handled, the next step, the current device, the C++ locals
that survive a REST call, and what the response will say of each device
(`silent`: neither `<Success>` nor `<Error>` is written). One REST call is one
step. `Crash` ends the process anywhere and loses the report; it also stands for
an error of the group part of a command, which replaces the whole response.
`phase` and `home` are SRM's plan: a phase is latched from the start of a command
until the same command reports the device as done; `home` is where production
runs. `Begin` issues a command for any set of devices that run at one site, in
any order.

**FailOver, ReverseReplication, RestoreReplication, SyncOnce.** The device loops.
`pc` names the step; the comment at the head of each module gives the order.

| action | code |
|---|---|
| `Classify` | `is_Fs_by_lun`: an error means LUN |
| `Expose`, `Remap` | `_add_map`, `CMD_unmountSlave`; a failure may have done part, and on FusionStorage an OK nothing (`FalseOk`) |
| `FailOverShow` | `CMD_showhymirrorlun_all`, rows kept in `local.seen` |
| `Sparse` | `execSparseHymirror`: sibling pairs made writable |
| `AlreadyPromoted`, `AlreadySuspended`, `Suspend` | the three ways past `_exec_hymirror_split_out` |
| `Activate` | `CMD_changeSlaveLunRw/FsRw` (READ_WRITE) |
| `Identify` | `getLunWwn` |
| `AddShare`, `FindShare`, `Unshare`, `AddShareAgain` | `CMD_addnfs`, `CMD_delnfs`, `CMD_addnfs`; `local.nfs` is `strNFSID` |
| `ReverseShow`, `Swap`, `ReverseLock` | `ReverseReplication::_outband_swap_hypermirror` |
| `RestoreShow`, `RestoreLock`, `Resync` | `RestoreReplication::_is_slave_device_out`; `local.front` is `lst_pair_status.front()` |
| `SyncShow`, `Inquire`, `StartSync` | `SyncOnce::_sync_mirror_out` |

**RecoveryWorkflow** composes process, arrays, SRM, failures and states the
properties. **RecoveryPlan** is the abstract specification: where production
runs, which site replicates, where hosts can write; SRM asks, the system
opens, turns and closes, and reports only what is so. The refinement mapping
takes `source` from `pair[d].primary` and `writable` from `WritableAt(d)`.
**RecoverySafety** has the inductive invariants: `SafetyInv`, and `MappingInv`,
`LockInv` and `RestoredInv`, which rest on less.

**HostMapping, HostCommand.** The second half of the system is what a command
does to the *hosts* of an array, and it has a process and an array of its own:
it needs another, finer state (initiators, groups, views) and nothing of the
pairs. `hostGroup`, `lunGroup` and `view` are functions on names, a name being
the object's id and the number the code appends (`suffixId`); a name stands for
the id the array would give. `hostOf` says to which host an initiator belongs,
`snapOf` of which LUN a snapshot is (all snapshots of the SRA have the one name
`VSSRA_SNAPSHOT_PREFIX` + LUN id), `active` which are activated. `faults` counts
failed calls and killed processes; a failed call may have been executed. `phase`
and `told` are SRM's: what a LUN is under, and what it was told of its snapshot.

**AddMap** is `_add_map` and all it calls, one REST call a step.

| action | code |
|---|---|
| `Select` | `_select_valid_initiator` |
| `Query` | `_query_lun_mapping_info`: access groups that see the object are left alone |
| `MakeHost`, `AddInitiator`, `HostsKnown` | `_query_and_create_host` |
| `UseHostGroup`, `SkipHostGroup`, `CreateHostGroup`, `FillHosts` | `_create_host_group`: the search by name and number for a group with exactly the hosts, or a new one |
| `UseLunGroup`, `SkipLunGroup`, `CreateLunGroup`, `FillLuns` | `_create_lun_group` |
| `UseView`, `NoView`, `SkipView`, `CreateView`, `JoinHosts`, `JoinLuns` | `_create_mapping`, `_create_mappingview` |
| `MapPick`, `MapDone` | the device loop of failover, up to the mapping |

**TestFailoverStart, TestFailoverStop.** The loops of the two commands for LUNs.

| action | code |
|---|---|
| `CheckStatus` | `_check_status_sync_out` |
| `Operate`, `CreateSnapshot`, `FindSnapshot`, `ActivateSnapshot`, `ActiveTime` | `_operate_snapshot_out` |
| `MapSnapshot`, `SnapshotMapped`, `SnapshotNotMapped` | `_map_snapshot_to_host_out` around `_add_map` |
| `ListMappings`, `Identify` | `_get_snapshot_wwn_out`; `local.wwn` is `device_wwn` |
| `ShowMappings`, `StopPick`, `FindTested` | `_deal_hymirror_out`, `_stop_test_device_out` |
| `Examine`, `DetachHosts` ... `DelHostGroup` | `_del_map_from_dar`, one mapping |
| `Unmapped`, `Disable`, `DelSnapshot` | the end of `_stop_test_device_out` |

**TestFailover** composes them: mapping, start and stop of any devices, in any
order SRM may issue them, killed and rerun. **TestSafety** has the inductive
invariants of the proofs about it.

**GroupArray, GroupCommand.** A *unit* is a consistency group, a vStore pair, a
HyperMetro group or a HyperMetro pair; it changes as a whole. `unit[u]` has the
status, the primary (of a HyperMetro unit the preferred site, the only one that
writes while it is not `Normal`) and the access of the secondary. `sibling` are the
groups that hold other copies of the LUNs, `hyper` the HyperMetro at the production
site of a 3DC layout. A query answers the unit, or `NoRow`. SRM has more phases
than for devices (`preparing` ... `unwound`), because the two *prepare* commands
count; `GroupRecovery` maps them to those of `RecoveryPlan`. The loops over the
kinds of unit follow each other in the order of `LoopsOf`.

| action | code |
|---|---|
| `PrepareCopy` | `PrepareFailover` for copies: an answer from a show or none, no request that changes anything |
| `PrepareShowMetro`, `PrepareSwap` | `PrepareFailover` for HyperMetro: exchange of the preferred site |
| `FailOverShowCopy` | `_outband_swap_consist`, `is_Fs_by_lun` |
| `FailOverSparse` | `execSparseConsisgr`: sibling groups made writable |
| `FailedOverBefore`, `SuspendedBefore`, `SuspendCopy` | the ways through `_exec_split_out` |
| `ActivateCopy`, `CopyMembers` | `CMD_changeCGSlaveLunRw`, `CMD_changeVstorePairSlaveLunRw`, `_get_consisgr_info_out` |
| `FailOverShowGroup`, `IsolateGroup` | `_exec_failover_hm_out` |
| `FailOverShowPair`, `IsolatePair` | `_exec_hmpair_failover_out` |
| `FailOverSwap`, `FailOverShowAgain`, `FailOverStop` | exchange of the preferred site and `_exec_hmpair_split_out` |
| `GroupMembers`, `PairMembers` | `_get_consisgrhm_info_out`, the show that refuses a slave |
| `FindHypers`, `StopHyper`, `JudgeHyper` | `deal_AB`, `do_deal_AB`, with `set_consis_result` recording for every group |
| `UnwindCopy`, `UnwindSparse` | `dealConsistHyperMirror` of prepareReverse: siblings of groups read-only (`dealHyperMirror`, the same for devices, is not modelled) |
| `ReverseShowCopy`, `SwapCopy`, `LockCopy` | `_outband_swap_consist` of reverse |
| `ReverseShowMetro` ... `ReverseSwapMetro` | `_outband_swap_consisthm` and its counterpart for pairs |
| `ReverseHypers`, `ResyncHyper` | `ReverseReplication::deal_3dc_lun` |
| `RestoreShowCopy`, `RestoreLockCopy`, `RestoreSyncCopy` | restore, which shows every copy as a group |
| `RestoreShowGroup`, `RestoreSyncMetro` | restore of HyperMetro groups |
| `RestoreShowPair` | restore of HyperMetro pairs: `local.front` is the front of the list of statuses that outlives the pair; the loop never exchanges |
| `SyncShowCopy`, `SyncCopy`, `SyncShowGroup`, `SyncShowPair`, `SyncInquirePair`, `SyncMetroUnit` | syncOnce |

**GroupSafety** has the inductive invariants of the group commands: `KnownInv` (what
the process goes by), `CopyInv` (consistency groups and vStore pairs), `MetroGroupInv`
(HyperMetro groups) and `SiblingsInv` (the other copies of a group).

**CloneArray, CloneCommand.** The test failover makes no snapshot of a file system
and none to map of a FusionStorage LUN, but a writable copy: `cloneOf[c]` is the
device a clone was made of, `shared` and `hosts` how it is reached, `snapped` the
FusionStorage snapshots in between. Ids of clones are given again. `served` is the
kind of array the command goes to; it never changes. `told` is the clone SRM was
named. `misled` are the LUNs for which the last command took the refusal of a clone, a
mapping or a deletion for an OK (`FullRestPkg`). `FileSystemTest` and `FusionTest` are
the branches for the two kinds.

| action | code |
|---|---|
| `CheckStatus`, `Operate`, `SkipDevice`, `StopPick` | the loops and their first shows, in both commands |
| `CreateClone`, `DateClone` | `CMD_createCloneFS`, `CMD_showhyimgoffs` |
| `AddShare`, `Unshare`, `Reshare` | `CMD_addnfs`, and `CMD_delnfs` and `CMD_addnfs` after "exists already"; `local.nfs` is `strNFSID` |
| `ListMappings`, `ShowMappings` | `CMD_showmap`, for nothing but its failure |
| `FindClone`, `FindShare`, `DelShare`, `DelClone` | `_stop_test_device_out`, NFS branch |
| `CreateSnapshot`, `CloneSnapshot`, `FindLun` | `_operate_snapshot_out`, FusionStorage branch |
| `MapClone`, `MapHost`, `Mapped` | `_map_snapshot`, `_add_map` to the end |
| `Identify` | `_get_snapshot_wwn_out`; `local.wwn` is `device_wwn` |
| `FindSnapshot`, `ShowRows`, `Unmap`, `DelLun`, `DelSnapshot` | `_do_failover_stop_fusion`, `_delete_snapshot_fusion` |

**CloneSafety** has the inductive invariants of this test failover, `TurnInv`,
`CopyInv` and `ReadyInv`.

**RestProfile, ArrayCalls, FusionCalls.** The 170 odd `CMD_*` functions differ in
what they ask for and hardly in how: a loop over the addresses, a request, and in a
few points, which are the fields of a *part*, what each outcome leads to. A call is
a sequence of parts, `Parts` being the values the fields may have. `ArrayCalls` and
`FusionCalls` have one definition for each function of `CRESTCmd` and
`CRESTFusionStorage`, under its name.

**RestCall, Transport.** One process makes such calls, one after the other, through
the connections it keeps by address; `g_bFusionStorage` says of which adapter. A
connection remembers how its login went: `in`, `refused` with an error, `hollow` (no
error and no data, OceanStor only), or `lost`.

| action | code |
|---|---|
| `Issue` | a command calls an adapter function |
| `LogIn`, `Reuse` | `getConn`: a connection is constructed, and logs in, or is found |
| `Served` | a request, its page, and the next page, part or result |
| `RowFails` | a request about one row of the page |
| `Hollow` | `doRequest` over a hollow login: no error, no data, nothing sent |
| `Reread` | over a refused login `CMD_showhyimgoflun` of FusionStorage finds the page before in its package and reads it again |
| `Refused`, `Busy`, `Lost`, `SslError` | an error of the array, 0x4040071F, a transport error, a failed handshake |
| `Skip`, `Reject` | a condition leaves parts out, or ends the call, before its request |
| `Stuck` | a loop that does not step over its row |
| `Evict`, `Age` | the array forgets a session; ten minutes pass |

Definitions named `X_Something` beside a definition `X` (`Locked_Ignored`,
`AlreadyPromoted_AnyAccess`, ...) are faulty variants of it: with one of them in
the place of `X` a property fails, which shows what the property guards against.

## 3. What is checked

The names of the runs say which MC module they use; state counts are distinct states.

| run | instance | result |
|---|---|---|
| `recovery` | one LUN with a sibling pair under automatic recovery, all four commands, one address | 15 264 states: type, `ProductionStaysWritable`, `ProductionStaysMapped`, `ProtectedFromProduction`, `RestoredSplitIsReadOnly`, `ReplicationRunsFromProduction`, `WritableOnlySuspended`, the contract `PlanContract`, and the invariant `SafetyInv` |
| `recovery_fusion` | one LUN, FusionStorage order, fairness | 7 104 states: mapping survives reruns where `_add_map` was not misled; failover and reverse end |
| `recovery_duplicates` | a LUN and a file system in one command, two addresses, failover and restore, fairness | 201 900 states: the contract and `SyncOnlyOntoReadOnly` with every request repeated, and failover ends, through delete and re-add of a share too |
| `reverse_retry` | one LUN | violation, finding 1 |
| `restore_batch` | two LUNs | violation, finding 2 |
| `test_failover` | two LUNs, two snapshot ids, two access groups (one shared, one with a free initiator), one fault, mapping, start and stop | 261 099 states: type, `MappedIsServed`, `TestedIsServed`, `OnlyAccessGroups` |
| `test_failover_live` | one LUN, two access groups sharing a free initiator, two faults, fairness | 239 708 states: `MappedIsServed`, `TestedIsServed`, and `MapCompletes`, `StopCompletes` |
| `clone_test` | two file systems, or two FusionStorage LUNs; two clone ids, two hosts, fairness | 152 018 states: type, `TestedIsExposed`, `StoppedIsGone`, and `StopEndsOrStrands` |
| `group_copy` | a consistency group of a 3DC layout with a sibling group, and a vStore pair; all six commands | 681 516 states: type, `CopyStaysWritable`, `ReversedFromProduction`, `SiblingsFollow`, `CopyOpensSuspended`, `RestoreOverwritesShut`, and the contract `CopyContract` |
| `group_metro` | a HyperMetro group and a HyperMetro pair, failed over with isolation | 155 364 states: `MetroServesProduction` |
| `group_isolation` | one HyperMetro group | violation, finding 3 |
| `transport` | every call of both adapters, two addresses, up to three objects | 193 998 states: type, `DeliveredAsReported`, `ListComplete`, `CallEnds`, `SessionRenewed` |

**Bounds.** The state spaces are finite without counters. `Device` has one or
two elements: devices meet only through the process that handles both, that is
through the order, through `Abandon` (the rest of the list is not handled) and
through the locals that outlive a device, and each of these needs two devices.
`Sibling` has one element: the sibling loop visits each once and stops at the
first error. `Addresses` is 1 or 2: the effect of a request depends on the
parity (`switch`) or on the presence of a delivery, and two addresses give 0, 1
and 2. Kills, failures, reruns and link breaks are unbounded. The theorems below
hold for any number of each.

In `MCTestFailover` what fails and dies is counted, by `MaxFaults`, because a
failure may leave a group or view behind under the next number: `Suffix` is
`1 .. MaxFaults + 1`, one number more than can be spoilt, so no search is cut
short. One fault at any of the calls and any kill is what a single rerun must get
over; the second one in the instance with liveness hits the rerun. (With two faults
the instance with two LUNs has 4.8 million states and its invariants hold as well;
it is not among the runs for its size.) Two snapshot ids with reuse are what
`OnlyAccessGroups` needs, two LUNs with different access groups make it matter.
LUN and snapshot ids are distinct; one management address and no repeated delivery
are assumed here, a call that fails after it was executed stands for a lost answer.
`GroupedStays` says what the array does with a snapshot in a LUN group that no view
joins: refuse to delete it (`TRUE`) or take it out (`FALSE`).

The group instances have one unit of each kind that meets another: a group, its
sibling and its HyperMetro meet through the results that prepareReverse records for
others, the vStore pair and the group through the shared loop, the HyperMetro group
and pair through the loops in which one failure gives up the rest. Copies and
HyperMetro units are in separate runs; they have no state in common but the process.
`Addresses` is 1 there, because an exchange delivered twice is known to go wrong
(below), and the failed call that was executed is kept.

In `MCCloneTest` failures and kills are unbounded. Two devices of each kind are what
`strNFSID` and `device_wwn` need to be the device before's; two hosts make half a mapping.
Two clone ids are as many as two devices can have at a time (`OneClone`, proved), and the
id of a clone that is gone is given to the other device as well as to its own. What
`misled` excepts is narrow: `Begin` clears it for the devices of the command, so that
it only says what the last command over a device was told.

In `MCTransport` pages of two rows (`RECOMMEND_RANGE_COUNT`), ranges of one
(`SPECIAL_RANGE_COUNT`) and `MaxRows = 3` give an empty list, a partial page, a
page that is just full, and a second page; the code has 150 and 100, and only the
order of the three numbers counts. The process uses one of the two adapters, with all of
its calls. A page that is read again stays in the list as far as the array has objects,
beyond that it is counted no more (`Reread`). One SSL retry instead of ten, and a busy array
asked three times as in the code.

**Fairness** (`FairSpec`). `WF(ProcessStep)`: a process that is not killed runs on
to its end, there is nothing in it to wait for but a REST call. `WF(Stabilize)`:
failures end some time; without it nothing can be promised. `SF(Rerun(d))`: the
operator reruns the plan for a device that is not done whenever it can be; strong,
because each process disables it. No fairness is assumed of the arrays: links may
stay down and synchronizations unfinished. `FailoverCompletes` holds for file
systems too, although one run can fail on its own share: the next finds it.
In `TestFailover` fairness is that of a process and of the reruns of a mapping and
of a stop; a *start* has none, because a rerun meets the snapshot of the run before
and is refused: the way on is a stop. `MaxFaults` bounds what goes wrong, which
stands for `Stabilize`. `StopCompletes` is checked with `GroupedStays = FALSE` only:
a stop killed between deleting a view and taking the snapshot out of its LUN group
leaves the snapshot in a group that the list of mappings no longer names; an array
that then refuses to delete it makes every later stop fail.
In `CloneTest` it is that of a process, of the end of failures and of the reruns of
a stop. In `RestCall` it is `WF(Process)`, a process with a call under way goes on
(it assumes that a request returns, although the code sets no limit on that), and
`WF(Age)`: time passes.

### Findings

1. *A reverse killed between exchange and lock is never locked* (`reverse_retry`).
   `reverse_replication.cpp:702` takes `master_id == iter->id` for done; the rerun
   reports success and the demoted side stays writable, although the code logs
   `After reverse the demoted target ... has attributes:[r/o]` (line 742).
2. *The first device decides a restore* (`restore_batch`). `restore.cpp:440` reads
   the front of a list all devices append to; a split device behind one that is not
   is reported as success and left as it is.
3. *A group that is not Normal is isolated by saying so* (`group_isolation`).
   `failover.cpp:1322` stops a HyperMetro group only while it is `Normal` and
   returns success for every other status; SRM is told that the session is
   terminated, and the group runs at both sites again after the link has healed.

### Known weaknesses, modelled and without a run

The modules have the code as it is, so what follows can be seen in them. No run
shows it: where it touches a property, the property says what is excepted.

* *A switch sent twice.* `CMD_swaphymirror` and `CMD_swapconsistgr` repeat the
  request at the next address after a lost answer; an array that exchanges the roles
  again leaves a device reported as reversed that replicates the old way. Hence
  `SingleDelivery` below.
* *Another file system's share is deleted.* `strNFSID` (`failover.cpp:677`) outlives
  its device: when the request for the second file system is sent again after a lost
  answer, `CMD_addnfs` says that the share exists and names none, and line 907
  deletes the share of the first. The same repair in `test_failover_start.cpp:534`
  can never help, because the share in its way is another one; the command fails as
  a whole, which is why `TestedIsExposed` holds.
* *A file system promoted without a share.* The result of `CMD_addnfs` is dropped
  unless it says that the share exists, that of `CMD_addnfsclient` always.
* *A stop that could not look reports success.* `_del_map_from_dar`
  (`test_failover_stop.cpp:898`, `:904`) takes a failed listing of a LUN group for an
  empty one and deletes nothing; the results of disabling and deleting the snapshot
  are dropped.
* *The WWN of the device before.* `device_wwn` (`test_failover_start.cpp:578`)
  outlives its device, in both branches: a copy missing from the list of mappings
  never gets `ERROR_GET_SNAPSHOT_WWN` once another device has had a WWN.
* *A FusionStorage LUN that cannot be tested any more.* A snapshot left without its
  cloned LUN (a stop killed between the two deletions; a failed `CMD_cloneSnap2Lun`,
  whose error is recorded as code 0) makes every stop fail: `CMD_showlunByname`
  fails unnoticed and the mappings of an empty id are asked for
  (`test_failover_stop.cpp:201`). A start meets the snapshot and is refused.
  `StopEndsOrStrands` says that nothing else does this.
* *prepareReverse.* `consis_id` is hidden by a local (`prepare_reverse.cpp:286`), so
  the result for one group is recorded for all; the loop at line 183 steps twice past
  a group with an error; `ThreeDCLun.cpp:74` uses the front of a list that is empty
  when its call has failed.
* *restore* shows every copy as a consistency group, so a vStore pair is never
  restored. Its HyperMetro pair loop compares ids that never match, and judges every pair
  by the status of the first one that was shown (`RestoreShowPair`).
* *A refusal of FusionStorage taken for an OK.* `fullRestPkg`
  (`CmdRESTFusionStorage.cpp:2453-2457`) reads `error.code` only if it is a string, and
  leaves `RETURN_OK` otherwise. `operateHostMapping` (`:2396`) logs the error of the array
  and returns that OK: a clone is reported under test, `[r/w] [multihost]`
  (`test_failover_start.cpp:985`), with a host that does not see it; and a LUN that
  `CMD_unmountSlave` has unmapped first (`failover.cpp:777`) is reported promoted and mapped
  to nobody. `CMD_dellun` (`:1937`) does not even look: a stop is reported and the clone is
  left; if it is still mapped no later stop takes it away (`Stranded`).
  `ProductionStaysMapped`, `TestedIsExposed` and `StoppedIsGone` except what is in
  `misled`; without that exception TLC finds each of them violated.
* *A login without error and without data.* `RESTConn.cpp:169` counts it as failed,
  `doRequest` (`:486`) then returns its package, under the comment that `there is error
  code`, and there is none: for ten minutes changes are reported done that were never sent,
  and lists end or are empty. `DeliveredAsReported` and `ListComplete` except what was
  answered over such a login (`Answering`); without that TLC finds both violated.
* *FusionStorage* `CMD_disablehcpair` and `CMD_stopconsistgrhm` have a parameter less
  than the virtual functions they are meant to override: what runs is the base
  class's, which returns success and sends nothing. `FusionCalls` has what is written.
* *Transport.* The calls left out of `Careful` may report a list that lacks rows or
  has them twice; those named in `Endless` may never end (`CMD_shownfs_byfsid` asks
  an address that is down for ever; `CMD_showhymirrorinfo_all` of FusionStorage does
  not step over a row it skips; its `CMD_showhyimgoflun` reads a full page again while a
  login is refused, because `CRestPackage::operator=` keeps the objects of the answer
  before). `fullRestPkg` ends without a value when no address
  answers, and reads an error code only if it is a string. A refused login is the
  answer of every request at its address for ten minutes, so that the other addresses
  are not tried; a FusionStorage login whose version is refused leaves `bLoginOK` set.
  Only the connection has a time limit, the answer has none.
* `CMD_delhyimg` logs an error of the array with a `char` for a `%s`
  (`CmdRESTAdapter.cpp:684`, the same at `:736`), which is undefined: `DelSnapshot` of
  `TestFailoverStop` lets the process go on or die there.

Met while modelling and excluded by an assumption: with automatic recovery of a
pair, the status read by failover can be stale by the time it is used
(interrupted when shown, replicating when write access is granted). The code has
constants for the recovery policy (`CmdRESTAdapter.h:172`, `:289`) and never
reads or sets it. By design of the code, a restore of a pair that is not split
answers success with warning 500 and changes nothing.

## 4. What is proved

TLAPS checks, for every value of the constants that satisfies the assumption of the
component and the hypothesis in the last column:

| theorem | module | states | hypothesis |
|---|---|---|---|
| `TypeCorrect` | `RecoverySafety_proofs` | `TypeOK` | |
| `SafetyInvariant` | `RecoverySafety_proofs` | the inductive invariant `SafetyInv` | `SingleDelivery`, `ManualRecovery` |
| `ProductionWritable` | `RecoverySafety_proofs` | `ProductionStaysWritable` | the same |
| `ProtectedRunsFromProduction` | `RecoverySafety_proofs` | `ProtectedFromProduction` | the same |
| `OpenedOnlySuspended` | `RecoverySafety_proofs` | `WritableOnlySuspended` | the same |
| `ReplicatesFromProduction` | `RecoverySafety_proofs` | `ReplicationRunsFromProduction` | the same |
| `ImplementsPlan` | `RecoverySafety_proofs` | `PlanContract` | the same |
| `ProductionMapped` | `RecoverySafety_proofs` | `ProductionStaysMapped` (on FusionStorage: where `_add_map` was not misled) | |
| `LockedBeforeSync` | `RecoverySafety_proofs` | `SyncOnlyOntoReadOnly` | no syncOnce |
| `RestoredLocked` | `RecoverySafety_proofs` | `RestoredSplitIsReadOnly` | `OneDevice` |
| `TypeCorrect` | `GroupSafety_proofs` | `TypeOK` | |
| `OpensOnlySuspended` | `GroupSafety_proofs` | `CopyOpensSuspended` | |
| `OverwritesOnlyShut` | `GroupSafety_proofs` | `RestoreOverwritesShut` | |
| `MetroServed` | `GroupSafety_proofs` | `MetroServesProduction` | |
| `CopyWritable` | `GroupSafety_proofs` | `CopyStaysWritable` | `SingleDelivery` |
| `CopyRunsFromProduction` | `GroupSafety_proofs` | `ReversedFromProduction` | `SingleDelivery` |
| `SiblingsFollowGroup` | `GroupSafety_proofs` | `SiblingsFollow` | `OwnSiblings` |
| `ImplementsPlan` | `GroupSafety_proofs` | `CopyContract` | `SingleDelivery` |
| `TypeCorrect` | `TestFailover_proofs` | `TypeOK` | |
| `AccessCorrect` | `TestFailover_proofs` | `OnlyAccessGroups` | |
| `MappedCorrect` | `TestFailover_proofs` | `MappedIsServed` | |
| `TestedCorrect` | `TestFailover_proofs` | `TestedIsServed` | `Grouped` |
| `TypeCorrect` | `CloneTest_proofs` | `TypeOK` | |
| `StoppedGone` | `CloneTest_proofs` | `StoppedIsGone` (a clone may be left where the stop was misled) | |
| `TestedExposed` | `CloneTest_proofs` | `TestedIsExposed` (a host may lack a LUN where the start was misled) | |
| `TypeCorrect` | `Transport_proofs` | `TypeOK` | |
| `ReportsDelivered` | `Transport_proofs` | `DeliveredAsReported` (login answered with data or an error, no call of `fullRestPkg`) | `HonestCalls` |
| `AdaptersReportDelivered` | `Transport_proofs` | the same | the calls are those of the adapters |
| `ListsComplete` | `Transport_proofs` | `ListComplete` (the shows in `Careful`; login answered with data or an error) | |

The assumptions on the constants (`DeviceAssumption`, `CommandAssumption`,
`UnitAssumption`, `GroupCommandAssumption`, `MappingAssumption`, `CloneAssumption`,
`RangeAssumption`, `TransportAssumption`) say what kind of thing each is: disjoint sets
of ids, at least one address, calls that are sequences of parts. TLC evaluates them in
the runs. The hypotheses are there because the code fails without them:

* `SingleDelivery`: when reverse is among the commands, a request is delivered
  at most once (a switch sent twice, above). Without reverse, any number is allowed.
* `ManualRecovery`: the devices' pairs do not recover automatically (the stale
  show above). Sibling pairs may.
* No syncOnce: it asks for no access, and reverse and restore report devices done that
  they have not locked (findings 1 and 2).
* `OneDevice`: finding 2 is what happens otherwise.
* `OwnSiblings`: no two consistency groups share another copy of their LUNs; the
  reverse of one would shut what the failover of the other has opened.
* `HonestCalls`: a part that changes something never takes a lost answer for a
  success. It is a hypothesis on the table of calls, and `AdaptersReportDelivered`
  discharges it for the tables of `ArrayCalls` and `FusionCalls`, function by function.
* `Grouped`: SRM names at least one access group for each device. `_add_map` loops over
  the groups of the request (`sra_basic.cpp:1397`) and answers RETURN_OK when there are
  none, also for a device whose snapshot could not be shown; the WWN left over from the
  device before (`test_failover_start.cpp:578`) then makes the start report it. With a
  device without groups TLC finds `TestedIsServed` violated in this way, and
  `TestInvariant` says that the devices which have groups are right all the same.

**Devices.** `TypeOK` is strengthened by `ProcessInv` (a process at a device
has one, an idle one has none). None of the safety properties is inductive: that a
reported failover left a writable site depends on what the process knew at the
step before. `SafetyInv` therefore says three things. `PhaseInv(d)`: between
commands, a promoted device is suspended, open, and replicates from the old site;
one that is being reversed is either still so or already turned. `ReportInv(d)`:
what the response will say of a device already holds. `StepInv`: at each step what
the process concluded from its show still holds (what was suspended is quiet, what
was writable is writable, a pair about to be exchanged is not yet turned). Each is
stable under the arrays' own steps, where manual recovery is used, and under
`Crash`, because `PhaseInv` never mentions the process: this is why a rerun may
start from anything. The proof goes action by action, with a lemma on what a
served request can do to a pair (`RequestEffect`) and frame lemmas on the ways a
step ends. The action properties and the refinement follow: every step is one step
of `RecoveryPlan` or a stutter: only `Activate` opens, only `Swap` turns,
only `ReverseLock` and `RestoreLock` close, only `Finish` reports.

The other three need none of this. `MappingInv`: what failover reports was mapped
before, at the latest by `Remap`, and stays so until the restore moves production back
to the site that was mapped first; an unmount for FusionStorage is at the site where
production does not run yet. On FusionStorage `Remap` may have been told OK in vain; then
the device and site are in `misled`, until the next failover of the device begins.
`LockInv`: what restore synchronizes it has locked, and
the arrays take no lock back. `RestoredInv`: with one device the front of the list is
empty when its status is read.

**Groups.** `TypeInv` says of the process what `ProcessInv` says there, and that each
unit is handled in the phase of its command. `KnownInv` is enough for the two action
properties. `CopyInv` is `PhaseInv`, `ReportInv` and `TurnInv` for copies, with more
phases; `MetroGroupInv` rests on `PendingInv` (a unit is answered for once) and says
where a HyperMetro group serves in every phase; `SiblingsInv` counts the siblings
visited so far. `StepKinds` sorts the steps by what they can do to a unit (open, turn,
shut, drift, or nothing), so that the refinement looks at five kinds and not at fifty
actions.

**Mapping and test failover on snapshots.** Four invariants, each with the one before.
`TypeInv`: which device a process handles; that groups and views belong to the object
they are named after (`NamesInv`), so that an id the array uses again never meets a
group of another LUN's snapshot that still holds something; that what `_add_map` holds
exists and is filled as far as its step says (`HeldInv`); and that of the rows
testFailoverStop has listed once, those of the devices to come are still what they
were, because nothing but the stop of their own snapshot touches them (`RowsInv`).
`AccessInv` adds `WantInv`: what is wanted for an access group are hosts of it, and
a group that is left out has the object already; with `MapEffect` (a step of `_add_map`
shows only the object at hand, only to wanted hosts, and hides nothing) it gives
`OnlyAccessGroups`. `MapInv`: at the three ways to RETURN_OK (`WaysToMapped`) the
wanted hosts see the object; what LUNs see is never taken away. `TestInv`: in every loop
of a start the devices the loop has passed have an active snapshot and then a served
one (`StartInv`). `Orderly` is what makes these independent of the devices beside them:
whatever step is taken, only the snapshot of the stop under way loses anything. The
proofs speak of `Sees`, a chain of view, host group and LUN group, in place of the
unions of `SeenBy` (`SeenSees`).

**Clones.** `TurnInv`: all devices of a process are in the phase of its command and of
one kind. `CopyInv`: a device has one clone at most, the clone of a LUN has its snapshot
behind it, what a process has read still holds, and what a stop reports is gone, but for a clone
whose deletion was reported in vain;
`OneClone` is what makes deleting *a* clone the same as deleting *the* clone. `ReadyInv`:
in every loop of a start, the devices the loop has passed are found, and exposed or
`misled`, so that the response can name them; it also holds when `strNFSID` is another device's, because
that share belongs to a device of the same command, and the start then fails.

**Transport.** The invariants speak of a call as a record, because one step computes
with what another would leave. `Room`: an address adds no more rows than the array has.
`Delivers`: a change has been executed at the addresses before the present one at most,
and one that ended OK, over a login that was answered, at least once (a call that ends
leaves its address in `last.at`, and the connection there is not logged in again before
`last` is cleared: `LoginsStay`). `Listed`: the list of a careful show is the rows up to
where it goes on. A reread page (`RereadFits`) and a hollow answer (`HollowFits`) keep to
the bounds of the type; no careful show has the first, and the second is excepted. What a call is
made of is a constant there; the two tables are then shown to consist of honest parts,
builder by builder (`BuiltParts`, `EditedParts`).

**Only model-checked**: liveness, which is out of the prover's reach (`FailoverCompletes`,
`ReverseCompletes`, `MapCompletes`, `StopCompletes`, `StopEndsOrStrands`, `CallEnds`,
`SessionRenewed`); and the violations. `RestoredSplitIsReadOnly` and
`SyncOnlyOntoReadOnly` do not hold beyond the hypotheses above, nor does
`TestedIsServed` beyond `Grouped`.

## 5. Plan

| order | modules | what | status |
|---|---|---|---|
| 1 | `ReplicationPair` ... `RecoverySafety` and proofs | the core above | done |
| 2 | `HostMapping`, `HostCommand`, `AddMap` | `_add_map` call by call, with kills and reruns | done |
| 3 | `TestFailoverStart`, `TestFailoverStop`, `TestFailover` | snapshot life cycle of LUNs from start to stop | done |
| 4 | `GroupArray` ... `GroupSafety` and proofs | groups, vStore pairs, HyperMetro, 3DC, prepare*; implements `RecoveryPlan` | done |
| 5 | `RestProfile` ... `Transport` and proofs | session cache, login, SSL retry, addresses and pages, every call of both adapters | done |
| 6 | `CloneArray` ... `CloneSafety` and proofs | test failover of file systems and of FusionStorage LUNs | done |
| 7 | `TestSafety` and proofs | the invariants of mapping and test failover on snapshots | done |

Every invariant and every safety property of the passing runs now has a theorem. What
remains is liveness, which the prover cannot take, and the parts of section 6.

## 6. Not modelled, and why

* The part of the test failover that is about consistency groups and HyperMetro. A start
  puts the members of a group into the list of devices and then treats them as devices,
  which is modelled; a stop goes through the members itself and drops the result
  (`test_failover_stop.cpp:394-398`, `:475-479`), so that a group is reported stopped
  whatever became of its members, which is not. The clients of NFS shares.
* `PrepareReverse::dealHyperMirror` (`prepare_reverse.cpp:121-174`), which shuts the
  sibling pairs of devices between the HyperMetros and the groups. The sibling groups are
  modelled; the siblings of devices are only opened (`Sparse`).
* What becomes of *which* data: a pair has a status and a direction, no contents.
  Recovery points, names, warnings, progress and wording are left out.
* In the recovery modules the calls of `_add_map` are one step that maps, or fails
  having mapped or not; `AddMap` has them one by one. That an OK means mapped is
  taken for granted there of OceanStor, and for OceanStor it is what `MappedCorrect`
  proves; what it comes to for a device without access groups is under `Grouped` above.
  For FusionStorage nothing proves it, and the recovery modules do not assume it: an OK may
  have mapped nothing (`FalseOk`). The 3DC variant of the mapping is left out, and so is a
  create call that answers OK without an id.
* A login answered without an error and without data, outside the transport: stacks 1 to 4
  assume that a call which answers OK over OceanStor was sent (section 2). An error answer
  of OceanStor without a code is not modelled anywhere.
* A device taken for the wrong kind (an error of `CMD_showfs`) is modelled. In
  `RecoveryWorkflow` the arrays serve the misdirected requests as if LUNs and file
  systems had one id space, which is the worse case; in `GroupRecovery` and
  `CloneTest` they are refused.
* Two SRA processes at the same time: SRM runs the commands of a plan one after the
  other, and nothing in the code guards against another.
* querySyncStatus, discover*, query*: read-only, no state to get wrong; the lists
  they are built from are those of `ListComplete`. `CCmdOperate` forwards every call.
* The list variant of `CMD_showconsistgrinfo`, which nobody calls; how a
  `CRestPackage` encodes and copies its fields.
* TLV packing and the OM connection, not reached in REST mode; XML, log files, CLI
  results, passwords: conversions of data.
