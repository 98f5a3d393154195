---------------------- MODULE MCCompositeTrackingStore ----------------------
(* Small instances of CompositeTrackingStore: a console and an API store. *)
EXTENDS CompositeTrackingStore

TwoStores == <<"console", "api-web">>
=============================================================================
