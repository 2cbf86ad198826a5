---------------------------- MODULE MCUsbConfig ----------------------------
(* The interface objects in the runs of UsbConfig.                          *)
EXTENDS UsbConfig

\* A keyboard and a mouse declare the boot protocols, a custom keypad none.
BootProtocols == [i \in Hid |-> CASE i = "keyboard" -> 1 [] i = "mouse" -> 2 [] OTHER -> 0]
============================================================================
