---------------------------- MODULE MCPublisher -----------------------------
(* Instances of Publisher for TLC.                                         *)
EXTENDS Publisher

CONSTANTS airports, roads, b1, b2, daily, dispatch, admin, cyclicalGroup, roadsGroup

\* "Don't run it concurrently with another upload."  (docs/roads.md:88)
OneGroup == [w \in Jobs |-> roadsGroup]
\* The groups the workflows declare.  (cyclical.yml:36, roads.yml:53, manifest-admin.yml:41)
WorkflowGroups == [w \in Jobs |-> IF w = daily THEN cyclicalGroup ELSE roadsGroup]

MCBuildsOf == [id \in Ids |-> IF id = airports THEN {b1, b2} ELSE {b1}]
MCIdsOf == [w \in Publishers |-> Undated]
=============================================================================
