------------------------ MODULE MCStreamSubscribers ------------------------
EXTENDS StreamSubscribers

=============================================================================
