---------------------------- MODULE MCBrowserPool ----------------------------
(* A finite instance of BrowserPool for TLC.                               *)
EXTENDS BrowserPool

=============================================================================
