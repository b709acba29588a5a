\* Is the end of the ssh session seen?
SPECIFICATION Spec
CONSTANT ChunkLimit = 0
PROPERTY RemoteEndIsSeen
