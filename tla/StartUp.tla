------------------------------ MODULE StartUp ------------------------------
(***************************************************************************)
(* The start of the production server (createProductionReviewServer in     *)
(* src/src/server.ts): what it checks of its configuration, of the         *)
(* accounts on consensus, of the payment gate and of the verdict topic     *)
(* before the first request, and the topic, which others may change while  *)
(* the server runs.  Any call may fail, which ends the process; a process  *)
(* that ended is started again.                                            *)
(*                                                                         *)
(* A tenant is [treasury, owner, agent, agentAccount, nativeId, tree,      *)
(* agentKey, nameBytes, idBytes]: tree and agentKey are what consensus     *)
(* holds, idBytes the length of both participant identifiers.  An          *)
(* authorization tree is [threshold, branches], a branch [threshold, keys];*)
(* a branch of threshold 0 is a single key.                                *)
(***************************************************************************)
EXTENDS Integers, Sequences, FiniteSets

CONSTANTS
    Configs,    \* deployments: configuration and the accounts it names
    Topics,     \* topics a deployment may be pinned to
    NoTopic,
    Names       \* accounts and keys

AuthorizationTrees ==
    [threshold : Nat, branches : Seq([threshold : Nat, keys : Seq(Names)])]

ASSUME ConfigTypes ==
    \A c \in Configs :
        /\ c.price \in Int /\ c.feeAccount \in Names
        /\ c.meter \in [base : Int, perKilobyte : Int, perAdjustment : Int,
                        min : Int, max : Int]
        /\ \A i \in DOMAIN c.tenants : c.tenants[i].tree \in AuthorizationTrees

VARIABLES
    config,
    boot,       \* the next thing checked, "serving" or "stopped"
    topic       \* the topic of the server, as consensus holds it

startVars == <<config, boot, topic>>

KeyOf(branch) == branch.keys[1]
IsKey(branch) == branch.threshold = 0
Single(key) == [threshold |-> 0, keys |-> <<key>>]

(* Fault: the inner list is not asked to need both of its keys.            *)
TreeOfAnyInner(tree, owner, agent, guard) ==
    /\ tree.threshold = 1 /\ Len(tree.branches) = 2
    /\ \E i \in 1..2 :
        /\ tree.branches[i] = Single(owner)
        /\ ~ IsKey(tree.branches[3 - i])
        /\ Len(tree.branches[3 - i].keys) = 2
        /\ {agent, guard} \subseteq {tree.branches[3 - i].keys[j] : j \in 1..2}

HasExpectedTreasuryKey(tree, owner, agent, guard) ==
    /\ tree.threshold = 1 /\ Len(tree.branches) = 2
    /\ \E i \in 1..2 :
        /\ tree.branches[i] = Single(owner)
        /\ tree.branches[3 - i].threshold = 2
        /\ Len(tree.branches[3 - i].keys) = 2
        /\ {agent, guard} \subseteq {tree.branches[3 - i].keys[j] : j \in 1..2}

(* Consensus: whether the signatures of some keys open a tree.             *)
OpensBranch(branch, signers) ==
    IF IsKey(branch) THEN KeyOf(branch) \in signers
    ELSE Cardinality({i \in DOMAIN branch.keys : branch.keys[i] \in signers})
            >= branch.threshold
Opens(tree, signers) ==
    Cardinality({i \in DOMAIN tree.branches : OpensBranch(tree.branches[i], signers)})
        >= tree.threshold

----------------------------------------------------------------------------
(* Bytes of a verdict message: its frame, the digest of the mandate and    *)
(* what varies.                                                            *)
MaxMessage == 1024
LongestEntity == 59
LongestSettlement == 119
ScheduleRecord(schedule, settlement, name, ids) ==
    126 + 8 + 64 + schedule + settlement + name + ids
TransferRecord(outcome, reason, transaction, settlement, name, ids) ==
    (IF outcome = "approved" THEN 152 + 8 ELSE 167 + 7 + reason)
        + 2 * 64 + transaction + settlement + name + ids

(* The longest tenant name is budgeted, whatever the tenant's own.         *)
VerdictsBudgeted(ids) ==
    ScheduleRecord(LongestEntity, LongestSettlement, 64, ids) <= MaxMessage

Tenants == {config.tenants[i] : i \in DOMAIN config.tenants}

KeysAreDistinct ==
    \A t \in Tenants :
        t.owner # t.agent /\ t.owner # config.guard /\ t.agent # config.guard

FeeIdentityIsApart ==
    \A t \in Tenants :
        /\ config.feeAccount \notin {t.treasury, t.agentAccount, config.operator}
        /\ config.feeKey \notin {t.owner, t.agent, config.guard}

ConfigIsSound ==
    /\ \A t \in Tenants :
        /\ t.nameBytes > 0
        /\ VerdictsBudgeted(t.idBytes)
        /\ t.nativeId = t.agentAccount
    /\ Tenants # {}
    /\ config.operatorKey = config.guard
    /\ KeysAreDistinct
    /\ FeeIdentityIsApart

MeterIsSound(m) ==
    /\ \A x \in {m.base, m.perKilobyte, m.perAdjustment, m.min, m.max} : x > 0
    /\ m.min <= m.max

(* validateConfig of the gate looks at the treasuries once more.           *)
GateIsSound ==
    /\ Tenants # {}
    /\ \A t \in Tenants :
        /\ config.feeAccount # t.treasury
        /\ config.feeKey \notin {t.owner, t.agent, config.guard}
    /\ config.price > 0
    /\ MeterIsSound(config.meter)

(* A topic is [ours, admin, submit, feeSchedule, fees]; ours says that its *)
(* ID and its memo are those asked for.                                    *)
(* Fault: an admin key is let pass.                                        *)
TopicWithAdmin(t) ==
    /\ t.ours
    /\ t.submit = config.operatorKey
    /\ ~ t.feeSchedule /\ ~ t.fees

TopicIsSound(t) ==
    /\ t.ours
    /\ ~ t.admin
    /\ t.submit = config.operatorKey
    /\ ~ t.feeSchedule /\ ~ t.fees

CreatedTopic ==
    [ours |-> TRUE, admin |-> FALSE, submit |-> config.operatorKey,
     feeSchedule |-> FALSE, fees |-> FALSE]

----------------------------------------------------------------------------
Startable == {"config", "fee account", "tenants", "store", "gate", "log"}

StartInit ==
    /\ config \in Configs
    /\ topic \in IF config.pinned THEN Topics ELSE {NoTopic}
    /\ boot = "config"

Check(stage, passes, next) ==
    /\ boot = stage
    /\ boot' = IF passes THEN next ELSE "stopped"
    /\ UNCHANGED <<config, topic>>

CheckConfig == Check("config", ConfigIsSound, "fee account")
QueryFeeAccount == Check("fee account", config.feeKeyOnLedger = config.feeKey, "tenants")

QueryTenants ==
    Check("tenants",
          \A t \in Tenants :
            /\ HasExpectedTreasuryKey(t.tree, t.owner, t.agent, config.guard)
            /\ t.agentKey = t.agent,
          "store")

OpenStore == Check("store", TRUE, "gate")
CreateGate == Check("gate", GateIsSound, "log")

LookupTopic == config.pinned /\ Check("log", TopicIsSound(topic), "serving")

CreateTopic ==
    /\ boot = "log" /\ ~ config.pinned
    /\ topic' = CreatedTopic
    /\ boot' = "serving"
    /\ UNCHANGED config

CallFails ==
    /\ boot \in Startable \ {"config"}
    /\ boot' = "stopped"
    /\ UNCHANGED <<config, topic>>

(* The process manager; a deployment without a pinned topic gets another.  *)
Restart ==
    /\ boot = "stopped"
    /\ boot' = "config"
    /\ UNCHANGED <<config, topic>>

Crash ==
    /\ boot = "serving"
    /\ boot' = "stopped"
    /\ UNCHANGED <<config, topic>>

(* Whoever holds the keys of a topic changes what they govern.             *)
AdminChangesTopic ==
    /\ topic # NoTopic /\ topic.admin
    /\ \E k \in {config.guard, "stranger"} : topic' = [topic EXCEPT !.submit = k]
    /\ UNCHANGED <<config, boot>>

FeesChange ==
    /\ topic # NoTopic /\ topic.feeSchedule
    /\ topic' = [topic EXCEPT !.fees = ~ topic.fees]
    /\ UNCHANGED <<config, boot>>

StartNext ==
    \/ CheckConfig \/ QueryFeeAccount \/ QueryTenants \/ OpenStore \/ CreateGate
    \/ LookupTopic \/ CreateTopic \/ CallFails \/ Restart

----------------------------------------------------------------------------
(* A server that answers requests guards the treasuries it accepted: by    *)
(* their keys as start-up found them, a treasury opens for the owner, and  *)
(* for the agent together with the guard, and for nobody else.             *)
AgentNeedsGuard ==
    boot = "serving" =>
        \A t \in Tenants :
            \A signers \in SUBSET {t.owner, t.agent, config.guard, config.feeKey, "stranger"} :
                Opens(t.tree, signers) <=>
                    (t.owner \in signers \/ {t.agent, config.guard} \subseteq signers)

(* While the server answers requests nobody can take its topic away or     *)
(* make it pay for a verdict, although the topic was looked at once.       *)
TopicStaysOurs ==
    boot = "serving" => topic.submit = config.guard /\ ~ topic.fees
=============================================================================
