--------------------------- MODULE MCRegistryStore --------------------------
EXTENDS RegistryStore

=============================================================================
