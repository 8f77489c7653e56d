------------------------- MODULE CredentialWebhook -------------------------
(***************************************************************************)
(* The credential admin endpoints the lifecycle service calls back while   *)
(* it binds and unbinds.  A binding id selects the Secret labelled with it;*)
(* each handler is the effect of one request on that Secret.               *)
(***************************************************************************)
EXTENDS ServicesStore

\* loadSecret finds the one Secret labelled with the id, if it exists.
loadSecret(b) == Exists(secret[b])

\* publish replaces the data of the Secret; an unknown Secret is an error.
publishCredentials(b) ==
    /\ loadSecret(b)
    /\ secret' = [secret EXCEPT ![b].data = TRUE]

\* destroy clears the credential finalizer; nothing to do for no Secret.
destroyCredentials(b) ==
    secret' = IF loadSecret(b)
              THEN [secret EXCEPT ![b] = FinalizerCleared(secret[b])]
              ELSE secret
=============================================================================
