------------------------ MODULE MCWorkstationProofs ------------------------
(***************************************************************************)
(* A behaviour of the composed workstation is a behaviour of each of its   *)
(* components: what is proved of them holds of it, and so do their types.  *)
(***************************************************************************)
EXTENDS MCWorkstation, WorkstationProofs, ClientProofs, TLAPS

\* A step of the composition is a step of one component, and leaves the others
\* as they are.
LEMMA WorkSteps ==
  ASSUME [WorkNext]_WorkVars
  PROVE  /\ [LifeNext]_lifeVars /\ [HostsNext]_hostVars /\ [ClientNext]_clientVars /\ [PathsNext]_pathVars
         /\ [ResNext]_resVars /\ [UpdateNext]_updVars /\ [NoticesNext]_noticeVars /\ [DeployNext]_deployVars
         /\ part' = part
<1>1. CASE UNCHANGED WorkVars
  BY <1>1 DEF WorkVars
<1>2. CASE OnLife(LifeStep)
  BY <1>2 DEF OnLife, LifeStep
<1>3. CASE OnHosts(HostsStep)
  BY <1>3 DEF OnHosts, HostsStep
<1>4. CASE OnClient(ClientStep)
  BY <1>4 DEF OnClient, ClientStep
<1>5. CASE OnPaths(PathsStep)
  BY <1>5 DEF OnPaths, PathsStep
<1>6. CASE OnResolver(ResolverStep)
  BY <1>6 DEF OnResolver, ResolverStep
<1>7. CASE OnUpdate(UpdateNext)
  BY <1>7 DEF OnUpdate
<1>8. CASE OnNotices(NoticesStep)
  BY <1>8 DEF OnNotices, NoticesStep
<1>9. CASE OnDeploy(DeployNext)
  BY <1>9 DEF OnDeploy
<1> QED BY <1>1, <1>2, <1>3, <1>4, <1>5, <1>6, <1>7, <1>8, <1>9 DEF WorkNext

\* A behaviour of the composition is a behaviour of each component: what is
\* proved of a component holds of the commands of one workstation.
THEOREM WorkIsEach ==
  WorkSpec => LifeSpec /\ HostsSpec /\ ClientSpec /\ PathsSpec /\ ResSpec /\ UpdateSpec /\ NoticesSpec /\ DeploySpec
<1>1. WorkInit => /\ LifeInit /\ HostsInit /\ ClientInit /\ PathsInit
                  /\ ResInit /\ UpdateInit /\ NoticesInit /\ DeployInit
  BY DEF WorkInit
<1>2. [WorkNext]_WorkVars => /\ [LifeNext]_lifeVars /\ [HostsNext]_hostVars /\ [ClientNext]_clientVars
                             /\ [PathsNext]_pathVars /\ [ResNext]_resVars /\ [UpdateNext]_updVars
                             /\ [NoticesNext]_noticeVars /\ [DeployNext]_deployVars
  BY WorkSteps
<1> QED BY <1>1, <1>2, PTL
    DEF WorkSpec, LifeSpec, HostsSpec, ClientSpec, PathsSpec, ResSpec, UpdateSpec, NoticesSpec, DeploySpec

\* Whichever component runs, it stays in its types.
THEOREM WorkStaysTyped == WorkSpec => []WorkTypeOK
<1> DEFINE T == /\ LifeTypeOK /\ HostsTypeOK /\ ClientTypeOK /\ PathsTypeOK
                /\ ResTypeOK /\ UpdateTypeOK /\ NoticesTypeOK /\ DeployTypeOK
           P == part \in WorkParts
<1>1. WorkInit => P
  BY DEF WorkInit
<1>2. P /\ [WorkNext]_WorkVars => P'
  BY WorkSteps
<1>3. P /\ T => WorkTypeOK
  BY DEF WorkTypeOK, WorkParts, LifeParts, HostParts, ClientParts, ResParts
<1>4. WorkSpec => []P
  <2> HIDE DEF P
  <2> QED BY <1>1, <1>2, PTL DEF WorkSpec
<1>5. WorkSpec => []T
  <2>1. LifeTypeOK /\ HostsTypeOK /\ ClientTypeOK /\ PathsTypeOK
        /\ ResTypeOK /\ UpdateTypeOK /\ NoticesTypeOK /\ DeployTypeOK => T
    OBVIOUS
  <2> HIDE DEF T
  <2> QED BY <2>1, WorkIsEach, MachinesStayTyped, HostsStayTyped, ClientStaysTyped, PathsStayTyped,
             ResolverStaysTyped, UpdatesStayTyped, NoticesStayTyped, DeploymentsStayTyped, PTL
<1> HIDE DEF T, P
<1> QED BY <1>3, <1>4, <1>5, PTL
=============================================================================
