------------------------------ MODULE Deployment ------------------------------
(***************************************************************************)
(* deploy.sh and teardown.sh: the password of the Synapse administrator is *)
(* made up before the deployment and stored in the key vault after it.     *)
(* The estate is what a later script can see: whether there is a resource  *)
(* group, the password Synapse has, the vault and what it holds.           *)
(***************************************************************************)
EXTENDS Naturals

CONSTANTS
  Operators,     \* who may run the scripts
  MaxDeploys     \* bound: deployments started

ASSUME DeployAssumption == MaxDeploys \in Nat /\ "none" \notin Operators

VARIABLES
  group,      \* resource groups: none, live, or being deleted
  sql,        \* the password Synapse was deployed with last
  vault,      \* none, live, or deleted and kept for its retention period
  secret,     \* what the vault holds
  outputs,    \* whose deployment .env.deployed was written from
  deploy,     \* of each operator: the run of deploy.sh
  deploys,
  unstored,   \* history: the passwords of runs that ended without storing them
  overlapped  \* history: two deployments between making the password and storing it

deployVars == <<group, sql, vault, secret, outputs, deploy, deploys, unstored, overlapped>>

NoPassword == <<"none", 0>>
FromEnv == <<"env", 0>>       \* SYNAPSE_SQL_ADMIN_PASSWORD
NoDeploy == [stage |-> "idle", password |-> NoPassword]

DeployInit ==
  /\ group = "none" /\ sql = NoPassword /\ vault = "none" /\ secret = NoPassword
  /\ outputs = "none" /\ deploys = 0
  /\ unstored = {} /\ overlapped = FALSE
  /\ deploy = [o \in Operators |-> NoDeploy]

Under(o) == deploy[o].stage \in {"checked", "created", "captured"}

\* The run goes on to a stage; one that fails, or is not allowed to store it, takes the password
\* with it.
Reach(o, stage) ==
  /\ deploy' = [deploy EXCEPT ![o].stage = stage]
  /\ unstored' = IF stage \in {"failed", "not stored"} THEN unstored \cup {deploy[o].password}
                 ELSE unstored

\* Everything before the deployment: without a subscription, a parameter file, a preflight, a
\* build or a validation that succeeds there is none; the what-if is for information.
Prepare(o) ==
  /\ ~Under(o) /\ deploys < MaxDeploys
  /\ deploys' = deploys + 1
  /\ \E stage \in {"checked", "refused"}, password \in {<<o, deploys + 1>>, FromEnv} :
       deploy' = [deploy EXCEPT ![o] = [stage |-> stage, password |-> password]]
  /\ overlapped' = (overlapped \/ \E p \in Operators \ {o} : Under(p))
  /\ UNCHANGED <<group, sql, vault, secret, outputs, unstored>>

\* az deployment sub create.  It may fail as a whole, or with Synapse deployed and the rest not;
\* it always fails beside groups that are being deleted, and where the vault's name is taken by
\* the deleted one.
Create(o) ==
  /\ deploy[o].stage = "checked"
  /\ \/ Reach(o, "failed")
        /\ UNCHANGED <<group, sql, vault>>
     \/ /\ group # "deleting"
        /\ group' = "live" /\ sql' = deploy[o].password
        /\ \/ Reach(o, "failed") /\ UNCHANGED vault
           \/ /\ vault # "deleted" /\ vault' = "live"
              /\ Reach(o, "created")
  /\ UNCHANGED <<secret, outputs, deploys, overlapped>>

\* The outputs are read and written to .env.deployed, unless they cannot be had.
Capture(o) ==
  /\ deploy[o].stage = "created"
  /\ \/ outputs' = o /\ Reach(o, "captured")
     \/ UNCHANGED outputs /\ Reach(o, "failed")
  /\ UNCHANGED <<group, sql, vault, secret, deploys, overlapped>>

\* Mutant of Stored: a secret that is there already is kept.
StoredIfNone(password) == IF secret = NoPassword THEN password ELSE secret

\* az keyvault secret set.
Stored(password) == password

\* The vault may refuse it, and the script says so and goes on; the readiness check that follows
\* can tag the group, and never fails.
Store(o) ==
  /\ deploy[o].stage = "captured"
  /\ \/ /\ vault = "live"
        /\ secret' = Stored(deploy[o].password)
        /\ Reach(o, "done")
     \/ /\ Reach(o, "not stored")
        /\ UNCHANGED secret
  /\ UNCHANGED <<group, sql, vault, outputs, deploys, overlapped>>

\* teardown.sh, confirmed: the deletion is begun and not waited for.  The vault is not among the
\* deleted ones yet, or else it cannot be purged, as it is protected against that.
Teardown ==
  /\ group = "live"
  /\ group' = "deleting"
  /\ UNCHANGED <<sql, vault, secret, outputs, deploy, deploys, unstored, overlapped>>

GroupDeleted ==
  /\ group = "deleting"
  /\ group' = "none" /\ sql' = NoPassword
  /\ vault' = IF vault = "live" THEN "deleted" ELSE vault
  /\ UNCHANGED <<secret, outputs, deploy, deploys, unstored, overlapped>>

\* The retention period ends.
VaultExpires ==
  /\ vault = "deleted"
  /\ vault' = "none" /\ secret' = NoPassword
  /\ UNCHANGED <<group, sql, outputs, deploy, deploys, unstored, overlapped>>

DeployNext ==
  \/ Teardown \/ GroupDeleted \/ VaultExpires
  \/ \E o \in Operators : Prepare(o) \/ Create(o) \/ Capture(o) \/ Store(o)
-----------------------------------------------------------------------------
\* The types; and a deployment that is past its creation has left the outputs of one.
DeployTypeOK ==
  /\ group \in {"none", "live", "deleting"} /\ vault \in {"none", "live", "deleted"}
  /\ outputs \in Operators \cup {"none"} /\ deploys \in 0 .. MaxDeploys
  /\ \A o \in Operators : deploy[o].stage \in {"captured", "done", "not stored"} => outputs # "none"

\* The password Synapse has been deployed with can always be had: it is in the vault, or a
\* script under way still holds it, or it came from the environment; unless the script that
\* made it up failed or could not store it, or deployments overlapped.
SecretKept ==
  \/ sql \in {NoPassword, FromEnv, secret} \cup unstored
  \/ overlapped
  \/ \E o \in Operators : Under(o) /\ deploy[o].password = sql
=============================================================================
