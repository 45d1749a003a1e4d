---------------------------- MODULE MCStreamLife ----------------------------
(* StreamLife with three files, each call of the opening failing or not, and *)
(* an application that may give up the sound.                                *)
EXTENDS StreamLife

MCFiles == {{"audio", "video"}, {"audio", "subtitle"}, {"video", "subtitle"}}
MCFaults == {"audio_output", "open_input", "find_stream_info", "decoder",
             "audio_device", "audio_buffer", "enqueue", "mediacodec"}
=============================================================================
