--------------------------- MODULE AssetIdentity ---------------------------
(***************************************************************************)
(* What the asset-URI layer promises, without URIs: an asset is the        *)
(* resource it was declared for, and its lineage identity is a function of *)
(* that resource.  A resource of the documented shape is always accepted,  *)
(* is published under Identity(resource) and never fails; about any other *)
(* resource nothing is promised (it may be refused, accepted, published    *)
(* under any dataset, or fail).  Re-reading an asset changes nothing here. *)
(***************************************************************************)
CONSTANTS
    Slots,          \* the assets being tracked
    Resources,      \* what an asset can be declared for
    NoResource,     \* the resource of an empty slot
    Datasets,       \* the lineage identities an asset can be published under
    NoId,           \* the published identity of an unpublished slot
    Identity(_),    \* resource -> its documented lineage identity
    IsValid(_)      \* resource -> is it of the documented shape

VARIABLES
    status,         \* slot -> "empty" | "registered" | "refused" | "published" | "failed"
    resource,       \* slot -> the declared resource
    published       \* slot -> the identity it was published under

Init ==
    /\ status    = [s \in Slots |-> "empty"]
    /\ resource  = [s \in Slots |-> NoResource]
    /\ published = [s \in Slots |-> NoId]

Register(s, r) ==
    /\ status[s] = "empty"
    /\ status'   = [status EXCEPT ![s] = "registered"]
    /\ resource' = [resource EXCEPT ![s] = r]
    /\ UNCHANGED published

\* Only a resource not of the documented shape may be refused.
Refuse(s, r) ==
    /\ status[s] = "empty"
    /\ ~IsValid(r)
    /\ status'   = [status EXCEPT ![s] = "refused"]
    /\ resource' = [resource EXCEPT ![s] = r]
    /\ UNCHANGED published

\* A valid resource is published under its identity.
Publish(s, d) ==
    /\ status[s] = "registered"
    /\ IsValid(resource[s]) => d = Identity(resource[s])
    /\ status'    = [status EXCEPT ![s] = "published"]
    /\ published' = [published EXCEPT ![s] = d]
    /\ UNCHANGED resource

\* Only an asset of an invalid resource may fail to be published.
Fail(s) ==
    /\ status[s] = "registered"
    /\ ~IsValid(resource[s])
    /\ status' = [status EXCEPT ![s] = "failed"]
    /\ UNCHANGED <<resource, published>>

Forget(s) ==
    /\ status[s] \in {"refused", "published", "failed"}
    /\ status'    = [status EXCEPT ![s] = "empty"]
    /\ resource'  = [resource EXCEPT ![s] = NoResource]
    /\ published' = [published EXCEPT ![s] = NoId]

Next ==
    \E s \in Slots :
        \/ \E r \in Resources : Register(s, r) \/ Refuse(s, r)
        \/ \E d \in Datasets : Publish(s, d)
        \/ Fail(s)
        \/ Forget(s)

Spec == Init /\ [][Next]_<<status, resource, published>>

=============================================================================
