---- MODULE KeyNames ----
\* The key names the clients use, shared by the modules about keys.
CONSTANT Keys

====
