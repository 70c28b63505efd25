\* Six keys compete for three nodes.
SPECIFICATION Spec
CONSTANTS
  Size <- MCSize
  AddrSpace <- MCAddrSpace
  Word <- MCWord
INVARIANTS
  TypeOK
  Reachable
PROPERTIES
  ImplementsTable
