-------------------------------- MODULE MCSmp --------------------------------
\* Two workers and three chunks: some core gets more chunks than another, and
\* one may come up during the job or never.
EXTENDS Smp
=============================================================================
