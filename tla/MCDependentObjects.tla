--------------------------- MODULE MCDependentObjects ---------------------------
(* Instances of DependentObjects for TLC.                                  *)
EXTENDS DependentObjects

\* Service, ConfigMap and Secret are handled alike; only the ConfigMap's
\* content depends on the pods.
ConfigMapOnly == <<"ConfigMap">>
=============================================================================
