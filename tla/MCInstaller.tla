---------------------------- MODULE MCInstaller ------------------------------
(* Installer, for TLC: installer.cfg gives the constant. *)
EXTENDS Installer
==============================================================================
