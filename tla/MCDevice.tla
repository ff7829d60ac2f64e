------------------------------ MODULE MCDevice ------------------------------
(* A function with two queue pairs and one interrupt vector.               *)
EXTENDS Device

\* Everything that fails without leaving something behind: see the README
\* for what is left out ("sysfs", "reenable").
MCFaults == {"regions", "pci", "mask", "bars", "interface", "irqs", "qdev",
             "xpdev", "chrdev", "vfs", "start"}
=============================================================================
