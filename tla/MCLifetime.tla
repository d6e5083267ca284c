----------------------------- MODULE MCLifetime -----------------------------
EXTENDS Lifetime
=============================================================================
