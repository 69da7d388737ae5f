----------------------------- MODULE PlaybackMC -----------------------------
(* Playback with four tracks; the configuration names what happens to them.  *)
EXTENDS Playback

ShortFour == <<2, 1, 1, 1>>     \* chunks of each
Mixed == <<1, 1, 2, 0>>         \* their codecs; the last has none
=============================================================================
