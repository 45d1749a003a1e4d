\* three calls of start, pause or seekTo while a stream plays; a stream that
\* starts over waits while two messages are queued
SPECIFICATION FairSpec
CONSTANTS MaxCalls = 3 MaxQueue = 2
INVARIANTS BufferingAnnounced NeverStuck StateObeyed
PROPERTIES SeekSettles
