--------------------------- MODULE MCIpAllocator ---------------------------
(* Addresses of two bytes of two bits: subnets larger than a byte need the  *)
(* carry of incIP, and some subnets end where the address space does.       *)
EXTENDS IpAllocator
============================================================================
