----------------------------- MODULE Registries -----------------------------
(***************************************************************************)
(* The Repository and Image controllers: may the repository be pushed to,  *)
(* and a copy in it of the image that a tag points to.                     *)
(***************************************************************************)
EXTENDS TriggerStore

\* Who reads a status is queued when it changes.
RepositoryReaders == IF repository' = repository THEN {} ELSE {"image", "container"}

\* Wrong: nobody is told of the copy.
NoImageReaders == {}

ImageReaders == IF image' = image THEN {} ELSE {"container"}

\* Wrong: a Repository is good as soon as its credentials are there.
CheckCredentialsOnly ==
    repository' = IF access = "noCredentials" THEN "notReady" ELSE "ready"

\* RepositoryKeychain finds the credentials, CheckRepositoryAuthentication
\* tries them.  No error is repeated: a Secret is tracked, the registry is not.
CheckRepository ==
    repository' = IF access = "granted" THEN "ready" ELSE "notReady"

ReconcileRepository ==
    /\ "repository" \in queued
    /\ CheckRepository
    /\ Done("repository", RepositoryReaders)
    /\ UNCHANGED <<sources, image, children, trigger, caches, changes, faults>>

\* Wrong: the copy of an earlier tag is good enough.
CopyOnce ==
    image' = [image EXCEPT !.state = "ready",
                           !.runtime = IF image.runtime = 0 THEN tag ELSE image.runtime]

\* The digest is resolved anew by every request.
CopyImage == image' = [state |-> "ready", runtime |-> tag]

\* ResolveRepository, then CopyImage.
ReconcileImage ==
    /\ "image" \in queued
    /\ \/ /\ repository = "pending"
          /\ UNCHANGED image
          /\ Done("image", {})
       \/ /\ repository = "notReady"
          /\ image' = [image EXCEPT !.state = "notReady"]
          /\ Done("image", ImageReaders)
       \/ /\ repository = "ready" /\ access = "noCredentials"
          /\ image' \in {image, [image EXCEPT !.state = IF @ = "pending" THEN "notReady" ELSE @]}
          /\ Done("image", ImageReaders)
       \/ /\ repository = "ready" /\ access = "granted"
          /\ CopyImage
          /\ Done("image", ImageReaders)
    /\ UNCHANGED <<sources, repository, children, trigger, caches, changes, faults>>

\* The registry fails the copy: the request is repeated, and at first the
\* status is left alone.  Such a failure does not copy the generation, so that
\* one not observed yet stays so, whatever its conditions say.
CopyFails ==
    /\ "image" \in queued
    /\ repository = "ready" /\ access = "denied"
    /\ image.state = "ready"
    /\ image' = [image EXCEPT !.state = "notReady"]
    /\ queued' = queued \union {"container"}
    /\ UNCHANGED <<sources, repository, children, trigger, caches, unannounced,
                   changes, faults>>

RegistriesNext == ReconcileRepository \/ ReconcileImage \/ CopyFails
=============================================================================
