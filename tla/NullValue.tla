------------------------------ MODULE NullValue ------------------------------
\* What a nullable column, an idle request and an unset field hold.
CONSTANT NULL
=============================================================================
