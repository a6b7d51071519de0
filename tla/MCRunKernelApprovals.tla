------------------------ MODULE MCRunKernelApprovals ------------------------
EXTENDS RunKernelApprovals
=============================================================================
