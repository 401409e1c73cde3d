--------------------------- MODULE MCEnqueueBuffer ---------------------------
\* Channels of capacity 1, so that both are full
\* while the slice holds segments; two producers, the caller and the response
\* handler, that compete for the room in qIn.
EXTENDS EnqueueBuffer
=============================================================================
