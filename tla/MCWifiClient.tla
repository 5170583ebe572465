---------------------------- MODULE MCWifiClient ----------------------------
(***************************************************************************)
(* WifiClient with up to two resets, and room for the events of two        *)
(* attempts to connect.                                                    *)
(***************************************************************************)
EXTENDS WifiClient

MCMaxResets == 2
MCMaxEvents == 4
==============================================================================
